---- MODULE Spec2Model ----
(***************************************************************************)
(* gscache: the two-tier cache backend.                                    *)
(*                                                                         *)
(*   internal/cache/backends/local/local.go   LocalBackend                 *)
(*   internal/cache/backends/blob (blob.go)   BlobBackend                  *)
(*   internal/cache/backends/blob/ar.go       ArStore.GetBlob              *)
(*                                                                         *)
(* A daemon is configured with one backend (local or blob).  Request       *)
(* goroutines (Procs) call Get / Put / Close / Compact on it.  Every       *)
(* access to shared memory, to the file system or to the bucket is a step  *)
(* of its own, so that the interleavings of the Go code are behaviours of  *)
(* the model.  A step that returns from the API hands the response to the  *)
(* caller: `returned` holds the responses of the last step.                *)
(*                                                                         *)
(* ActionIDs are 1..NumActions, and 0 is the zero-length ActionID.         *)
(* OutputIDs name content: the body named by OutputID o has SizeOf(o)      *)
(* bytes, and a put request for o declares BodySize = SizeOf(o); the body  *)
(* stream handed to a put may carry any number of bytes (n), which is how  *)
(* a truncated or overlong stream is modelled.                             *)
(***************************************************************************)
EXTENDS Integers, Sequences, FiniteSets, TLC

\* ---------------------------------------------------------------- bounds
NumProcs == 2
MaxCalls == 3
MaxBlobCalls == 2
NumActions == 2
MaxOut == 1
MaxBody == 1
UploadConcurrency == 1

Procs == 1..NumProcs
ActionIDs == 1..NumActions
EmptyID == 0
OutputIDs == 0..MaxOut
BodyLens == 0..MaxBody

\* The size of the content an OutputID names.
SizeOf(o) == o % 2

\* data/_empty.output, as a DiskPath; outputPath(o) is o itself.
EmptyPath == -1

\* What outputFile holds for a path that names a directory (info.IsDir()).
OutputIsDir == -2

\* ------------------------------------------------------------- values
NoEntry == [k |-> "none"]
Meta(a, o, s, t) == [k |-> "meta", aid |-> a, oid |-> o, size |-> s, time |-> t]

NoRes == [k |-> "none"]
RMiss == [k |-> "miss"]
RHit(o, s, t, path) == [k |-> "hit", oid |-> o, size |-> s, time |-> t, path |-> path]
RPutOk(path) == [k |-> "ok", path |-> path]
RErr(e) == [k |-> "err", e |-> e]
RPanic == [k |-> "panic"]

NoFrame == [aid |-> 0, oid |-> 0, size |-> 0, n |-> 0, time |-> "now", ret |-> "client",
            meta |-> NoEntry, touched |-> FALSE]
NoBl == [ar |-> NoEntry, disk |-> NoRes, robj |-> NoEntry, tier |-> "none", src |-> NoEntry,
         fault |-> FALSE, own |-> FALSE]
NoUpl == [st |-> "none", last |-> "never"]

\* No upload flight for the ActionID, after one ended with `outcome`.
UplEnded(outcome) == [st |-> "none", last |-> outcome]
NoCall == [op |-> "none", id |-> 0, aid |-> 0, oid |-> 0, size |-> 0, n |-> 0,
           late |-> FALSE, solo |-> TRUE, exp |-> NoEntry, lead |-> 0]

VARIABLES
    backend,      \* "local" | "blob": the backend the daemon was configured with
    pc,           \* the position of each request goroutine
    call,         \* the API call each goroutine is serving (and what held on its arrival)
    fr,           \* the LocalBackend call frame of each goroutine
    bl,           \* the BlobBackend.get frame of each goroutine
    res,          \* the value the last call a goroutine made returned to it
    ncalls,       \* number of API calls made so far
    returned,     \* the API responses handed out by the last step
    actionFile,   \* data/XX/HEX.action, by ActionID
    outputFile,   \* data/XX/HEX.output, by OutputID: its length, -1 when absent, or OutputIsDir
    tmpLeft,      \* number of *.tmp.<id> files on disk
    sfGetL,       \* LocalBackend.sfGet: the goroutine executing get for a key, 0 when none
    sfPutL,       \* LocalBackend.sfPut
    closedL,      \* LocalBackend.closed
    closedB,      \* BlobBackend.closed
    sfGetB,       \* BlobBackend.sfGet
    upl,          \* BlobBackend.sfUpload: the upload flight of each ActionID
    poolStopped,  \* uploadQueue has been stopped
    arCur,        \* the bundle entries GetBlob reads, by entry name
    remoteAr,     \* the remote bundle object
    remote,       \* the bucket's standalone objects, by key
    lifecycle,    \* "live" | "cancelled": BlobBackend.lifecycle
    closeSt,      \* position of BlobBackend.Close
    elapsed,      \* time since Close started: 0 (< MaxCloseTimeout), 1, 2 (>= +3s)
    bucketClosed, \* bucket.Close() has been called
    ack,          \* by ActionID: the entry of the last Put acknowledged with no overlapping or later Put
    arFs,         \* ArLocalStore: the files of blobar/ (inode contents, the inode k.zip names, temp inodes)
    arReaders,    \* ArLocalStore: every ArReader opened so far, by the call that opened it
    arInstalled,  \* ArLocalStore.readers[keyspace]: the installed reader, 0 when none
    arProc,       \* the Put / LoadLocal call each goroutine is running
    arUser,       \* a consumer holding a reader obtained from Get
    arCalls,      \* number of Put / LoadLocal calls made so far
    job,          \* CompactionJob: the run in progress
    jobEnv,       \* CompactionJob: the bucket listing, the bundles and the runs made
    prog,         \* CacheProg: the read loop and Run
    hand,         \* CacheProg: the handler goroutines, by record
    stdout,       \* CacheProg: the responses written to stdout
    lr,           \* CacheProg: the read loop over the lines of stdin
    kc            \* the key codec: a call and its result

vars == <<backend, pc, call, fr, bl, res, ncalls, returned, actionFile, outputFile, tmpLeft,
          sfGetL, sfPutL, closedL, closedB, sfGetB, upl, poolStopped, arCur, remoteAr,
          remote, lifecycle, closeSt, elapsed, bucketClosed, ack,
          arFs, arReaders, arInstalled, arProc, arUser, arCalls, job, jobEnv, prog, hand, stdout, lr, kc>>

procVars == <<pc, call, fr, bl, res>>
diskVars == <<actionFile, outputFile, tmpLeft>>
localVars == <<sfGetL, sfPutL, closedL>>
blobVars == <<closedB, sfGetB, upl, poolStopped, arCur, remoteAr, remote, lifecycle,
              closeSt, elapsed, bucketClosed>>

\* The parts of the state by component: the cache backends, the bundle local store, the
\* compaction job and the GOCACHEPROG engine.
cacheVars == <<pc, call, fr, bl, res, ncalls, actionFile, outputFile, tmpLeft, sfGetL, sfPutL,
               closedL, closedB, sfGetB, upl, poolStopped, arCur, remoteAr, remote, lifecycle,
               closeSt, elapsed, bucketClosed, ack>>
arlVars == <<arFs, arReaders, arInstalled, arProc, arUser, arCalls>>
jobVars == <<job, jobEnv>>
progVars == <<prog, hand, stdout>>
lineVars == <<lr>>
keyVars == <<kc>>
outerVars == <<backend, arlVars, jobVars, progVars, lineVars, keyVars>>
notArl == <<backend, cacheVars, jobVars, progVars, lineVars, keyVars>>
notJob == <<backend, cacheVars, arlVars, progVars, lineVars, keyVars>>
notProg == <<backend, cacheVars, arlVars, jobVars, lineVars, keyVars>>
notLine == <<backend, cacheVars, arlVars, jobVars, progVars, keyVars>>
notKey == <<backend, cacheVars, arlVars, jobVars, progVars, lineVars>>

Active(q) == pc[q] # "idle"

\* The number of API calls the model runs: MaxCalls on the local backend, MaxBlobCalls on
\* the blob backend, whose calls take more steps.
CallBudget == IF backend = "local" THEN MaxCalls ELSE MaxBlobCalls

\* Idle goroutines are interchangeable: a new call is served by the first idle one.
MayCall(p) ==
    /\ ~Active(p)
    /\ ncalls < CallBudget
    /\ \A q \in Procs : q < p => Active(q)

NewCall(o, a, oid, n, isLate, leader) ==
    [op |-> o, id |-> ncalls + 1, aid |-> a, oid |-> oid, size |-> SizeOf(oid), n |-> n,
     late |-> isLate, solo |-> TRUE, exp |-> NoEntry, lead |-> leader]

\* A response handed to the caller of an API call: the call, the frames of the execution
\* when the caller ran it, the response, and whether the execution met a failure.
Response(q, c, f, b, r, x) ==
    [p |-> q, call |-> c, fr |-> f, bl |-> b, res |-> r, failed |-> x]

\* A group that runs fn for every caller.
SfAlwaysLeads(group, a) == TRUE

\* sfGet.Do / sfPut.Do: run fn when no call for the key is in flight, else wait for that call.
SfLeads(group, a) == group[a] = 0

\* The tag of the flight a call for key a joins in `group`: the id of the call leading it.
FlightTag(group, a) ==
    IF a = EmptyID THEN 0
    ELSE IF SfLeads(group, a) THEN ncalls + 1 ELSE call[group[a]].lead

\* No Put for ActionID a is in progress.
NoPutInProgress(a) == ~\E r \in Procs : Active(r) /\ call[r].op = "put" /\ call[r].aid = a

AckEntry(o, s) == [k |-> "ent", oid |-> o, size |-> s]

\* An API Put for ActionID a arrives: it overlaps every Put for a in progress, and the Gets
\* for a in progress are no longer after the last Put.
CallsAfterPutArrives(p, c) ==
    [q \in Procs |->
        IF q = p
        THEN [c EXCEPT !.solo = NoPutInProgress(c.aid)]
        ELSE IF Active(q) /\ call[q].op \in {"get", "put"} /\ call[q].aid = c.aid
        THEN [call[q] EXCEPT !.solo = FALSE, !.exp = NoEntry]
        ELSE call[q]]

AckAfterPutArrives(a) == [x \in ActionIDs |-> IF x = a THEN NoEntry ELSE ack[x]]

\* The call of an API response that returns at once (closed backend, panic).
ReturnsAtOnce(p, c, r) ==
    /\ pc' = [pc EXCEPT ![p] = "idle"]
    /\ returned' = {Response(p, c, NoFrame, NoBl, r, r.k \in {"err", "panic"})}
    /\ UNCHANGED <<fr, bl, res>>

\* ===================================================== LocalBackend
\* actionPath / outputPath index actionID[0] / outputID[0]: a zero-length id panics.
actionPathPanics(a) == a = EmptyID

LocalWaiters(wpc, a) == {q \in Procs : pc[q] = wpc /\ fr[q].aid = a}

\* A LocalBackend call returns `out` to the goroutines W: to the API caller, or to the
\* BlobBackend code that made the call.  pframe is the frame of p, which ran the flight.
DeliverLocal(W, out, p, pframe, failed) ==
    /\ pc' = [q \in Procs |-> IF q \notin W THEN pc[q]
                              ELSE IF fr[q].ret = "client" THEN "idle" ELSE fr[q].ret]
    /\ res' = [q \in Procs |-> IF q \in W /\ fr[q].ret # "client" THEN out ELSE res[q]]
    /\ call' = [q \in Procs |-> IF q \in W /\ fr[q].ret = "client" THEN NoCall ELSE call[q]]
    /\ fr' = [q \in Procs |-> IF q \in W THEN NoFrame ELSE fr[q]]
    /\ returned' = {Response(q, call[q], IF q = p THEN pframe ELSE fr[q], NoBl, out, failed) :
                      q \in {w \in W : fr[w].ret = "client"}}

\* A Get that hands the error of the flight to its caller.
LGetWrapKeepsError(out) == out

\* LocalBackend.Get, after sfGet.Do: an error of the flight is reported as a miss.
LGetWrap(out) == IF out.k = "err" THEN RMiss ELSE out

\* A LocalBackend call by goroutine p, serving API call c with frame f, that ends before
\* any flight with `out`.
LocalEndsEarly(p, c, f, out) ==
    IF f.ret = "client" \/ out = RPanic
    THEN /\ pc' = [pc EXCEPT ![p] = "idle"]
         /\ call' = [call EXCEPT ![p] = NoCall]
         /\ fr' = [fr EXCEPT ![p] = NoFrame]
         /\ res' = [res EXCEPT ![p] = NoRes]
         /\ returned' = {Response(p, c, f, NoBl, out, TRUE)}
    ELSE /\ pc' = [pc EXCEPT ![p] = f.ret]
         /\ res' = [res EXCEPT ![p] = out]
         /\ fr' = [fr EXCEPT ![p] = NoFrame]
         /\ returned' = {}
         /\ UNCHANGED call

\* LocalBackend.Get up to the start of the flight: goroutine p, API call c, frame f; `calls`
\* is the calls in progress once this one is.
LGetEnter(p, c, f, calls) ==
    IF closedL
    THEN LocalEndsEarly(p, c, f, RErr("closed")) /\ UNCHANGED sfGetL
    ELSE IF actionPathPanics(f.aid)
    THEN LocalEndsEarly(p, c, f, RPanic) /\ UNCHANGED sfGetL
    ELSE /\ call' = calls
         /\ fr' = [fr EXCEPT ![p] = f]
         /\ returned' = {}
         /\ UNCHANGED res
         /\ IF SfLeads(sfGetL, f.aid)
            THEN /\ pc' = [pc EXCEPT ![p] = "lget_open"]
                 /\ sfGetL' = [sfGetL EXCEPT ![f.aid] = p]
            ELSE /\ pc' = [pc EXCEPT ![p] = "lget_wait"]
                 /\ UNCHANGED sfGetL

\* LocalBackend.Put returns what the flight returned: resp.(*PutResponse), err.
LPutWrap(out) == out

\* The Put acknowledged by this return: one that overlapped no other Put of its ActionID.
AckAfter(W, out) ==
    IF \E q \in W : /\ call[q].op = "put" /\ fr[q].ret = "client" /\ call[q].solo
                    /\ W = {q} /\ out.k = "ok"
    THEN LET q == CHOOSE q \in W : TRUE
         IN [ack EXCEPT ![call[q].aid] = AckEntry(call[q].oid, call[q].size)]
    ELSE ack

\* sfPut.Do returns: the flight of p ends, p and every goroutine waiting on it get `out`.
FinishLPut(p, out, pframe) ==
    LET W == LocalWaiters("lput_wait", fr[p].aid) \cup {p}
    IN /\ DeliverLocal(W, LPutWrap(out), p, pframe, out.k = "err")
       /\ sfPutL' = [sfPutL EXCEPT ![fr[p].aid] = 0]
       /\ ack' = AckAfter(W, out)

\* A Put that does not look at the closed flag.
LPutEnterUnchecked(p, c, f, calls) ==
    IF actionPathPanics(f.aid)
    THEN LocalEndsEarly(p, c, f, RPanic) /\ UNCHANGED sfPutL
    ELSE /\ call' = calls
         /\ fr' = [fr EXCEPT ![p] = f]
         /\ returned' = {}
         /\ UNCHANGED res
         /\ IF SfLeads(sfPutL, f.aid)
            THEN /\ pc' = [pc EXCEPT ![p] = "lput_body"]
                 /\ sfPutL' = [sfPutL EXCEPT ![f.aid] = p]
            ELSE /\ pc' = [pc EXCEPT ![p] = "lput_wait"]
                 /\ UNCHANGED sfPutL

\* LocalBackend.Put up to the start of the flight: goroutine p, API call c, frame f.
LPutEnter(p, c, f, calls) ==
    IF closedL
    THEN LocalEndsEarly(p, c, f, RErr("closed")) /\ UNCHANGED sfPutL
    ELSE IF actionPathPanics(f.aid)
    THEN LocalEndsEarly(p, c, f, RPanic) /\ UNCHANGED sfPutL
    ELSE /\ call' = calls
         /\ fr' = [fr EXCEPT ![p] = f]
         /\ returned' = {}
         /\ UNCHANGED res
         /\ IF SfLeads(sfPutL, f.aid)
            THEN /\ pc' = [pc EXCEPT ![p] = "lput_body"]
                 /\ sfPutL' = [sfPutL EXCEPT ![f.aid] = p]
            ELSE /\ pc' = [pc EXCEPT ![p] = "lput_wait"]
                 /\ UNCHANGED sfPutL

\* ===================================================== BlobBackend
\* A bundle entry: its embedded EntryMeta and the length of its payload.
ArEnt(a, o, s, t) == [k |-> "ar", aid |-> a, oid |-> o, size |-> s, time |-> t, blen |-> s]

\* A standalone object: the EntryMeta at its head, the length of the body that follows it,
\* and who wrote it ("peer": a host sharing the bucket, "upload": doBgUpload).
Obj(a, o, s, t, blen, by) ==
    [k |-> "obj", aid |-> a, oid |-> o, size |-> s, time |-> t, blen |-> blen, by |-> by]

\* An object too short to hold an EntryMeta.
Garbage == [k |-> "garbage", by |-> "peer"]

\* A lookup that returns the entry under the name whatever ActionID it embeds.
GetBlobUnverified(a) == arCur[a]

\* ArStore.GetBlob: the entry named hex(actionID) of the current reader, if its embedded
\* ActionID is actionID.
GetBlob(a) ==
    IF arCur[a].k = "ar" /\ arCur[a].aid = a THEN arCur[a] ELSE NoEntry

\* CacheEntityKey indexes actionID[0]: a zero-length ActionID panics.
CacheEntityKeyPanics(a) == a = EmptyID

\* BlobBackend.Get, after sfGet.Do: an error of the flight is logged, with the object key,
\* and reported as a miss.
BGetWrap(out, a) ==
    IF out.k = "err"
    THEN IF CacheEntityKeyPanics(a) THEN RPanic ELSE RMiss
    ELSE out

BlobWaiters(a) == {q \in Procs : pc[q] = "bget_wait" /\ call[q].aid = a}

\* sfGet.Do returns: the flight of p ends, p and every goroutine waiting on it get `out`.
\* pbl is the frame of p, which ran get.
FinishBGet(p, out, pbl) ==
    LET a == call[p].aid
        W == BlobWaiters(a) \cup {p}
    IN /\ pc' = [q \in Procs |-> IF q \in W THEN "idle" ELSE pc[q]]
       /\ call' = [q \in Procs |-> IF q \in W THEN NoCall ELSE call[q]]
       /\ res' = [res EXCEPT ![p] = NoRes]
       /\ bl' = [bl EXCEPT ![p] = NoBl]
       /\ returned' = {Response(q, call[q], NoFrame, IF q = p THEN pbl ELSE NoBl,
                                BGetWrap(out, a), pbl.fault \/ out.k = "err") : q \in W}
       /\ sfGetB' = [sfGetB EXCEPT ![a] = 0]

\* The diskStore.Put that materializes a source entry (a bundle entry or a downloaded
\* object) locally: its meta's ids and Size, its body, OverrideTime = its Time.
MaterializeFrame(src) ==
    [NoFrame EXCEPT !.aid = src.aid, !.oid = src.oid, !.size = src.size, !.n = src.blen,
                    !.time = src.time, !.ret = "bget_put"]

\* get calls diskStore.Put for the source entry it found; b is its frame, and b.own records
\* whether this call runs the put itself.
BGetMaterialize(p, b) ==
    IF closedL
    THEN FinishBGet(p, RErr("closed"), b)
         /\ fr' = [fr EXCEPT ![p] = NoFrame]
         /\ UNCHANGED sfPutL
    ELSE /\ bl' = [bl EXCEPT ![p] = [b EXCEPT !.own = SfLeads(sfPutL, b.src.aid)]]
         /\ LPutEnter(p, call[p], MaterializeFrame(b.src), call)
         /\ UNCHANGED sfGetB

\* A get that goes to the bucket without looking at the bundle entry.
BGetDiskThenBucket(p, r, failed) ==
    LET b == [bl[p] EXCEPT !.disk = r, !.fault = failed]
    IN IF r.k = "hit"
       THEN /\ FinishBGet(p, r, [b EXCEPT !.tier = "local"])
            /\ fr' = [fr EXCEPT ![p] = NoFrame]
            /\ UNCHANGED sfPutL
       ELSE /\ bl' = [bl EXCEPT ![p] = b]
            /\ fr' = [fr EXCEPT ![p] = NoFrame]
            /\ pc' = [pc EXCEPT ![p] = "bget_remote"]
            /\ returned' = {}
            /\ UNCHANGED <<call, res, sfGetB, sfPutL>>

\* get, after diskStore.Get returned r (failed: it reports an error of its own as a miss):
\* its hit, else the bundle entry, else the bucket.
BGetDisk(p, r, failed) ==
    LET b == [bl[p] EXCEPT !.disk = r, !.fault = failed]
    IN IF r.k = "hit"
       THEN /\ FinishBGet(p, r, [b EXCEPT !.tier = "local"])
            /\ fr' = [fr EXCEPT ![p] = NoFrame]
            /\ UNCHANGED sfPutL
       ELSE IF bl[p].ar.k = "ar"
       THEN BGetMaterialize(p, [b EXCEPT !.src = bl[p].ar, !.tier = "archive"])
       ELSE /\ bl' = [bl EXCEPT ![p] = b]
            /\ fr' = [fr EXCEPT ![p] = NoFrame]
            /\ pc' = [pc EXCEPT ![p] = "bget_remote"]
            /\ returned' = {}
            /\ UNCHANGED <<call, res, sfGetB, sfPutL>>

\* An sfGet that keeps a flight that failed: later calls for the key wait on it.
FinishLGetKeepsFailed(p, out) ==
    /\ sfGetL' = IF out.k = "err" THEN sfGetL ELSE [sfGetL EXCEPT ![fr[p].aid] = 0]
    /\ IF fr[p].ret = "client"
       THEN /\ DeliverLocal(LocalWaiters("lget_wait", fr[p].aid) \cup {p}, LGetWrap(out),
                            p, fr[p], out.k = "err")
            /\ UNCHANGED <<bl, sfPutL, sfGetB>>
       ELSE BGetDisk(p, LGetWrap(out), out.k = "err")

\* sfGet.Do returns: the flight of p ends, p and every goroutine waiting on it get `out`.
\* BlobBackend.get goes on with the response at once.
FinishLGet(p, out) ==
    /\ sfGetL' = [sfGetL EXCEPT ![fr[p].aid] = 0]
    /\ IF fr[p].ret = "client"
       THEN /\ DeliverLocal(LocalWaiters("lget_wait", fr[p].aid) \cup {p}, LGetWrap(out),
                            p, fr[p], out.k = "err")
            /\ UNCHANGED <<bl, sfPutL, sfGetB>>
       ELSE BGetDisk(p, LGetWrap(out), out.k = "err")

\* API call Get on the local backend.
LGetCall(p, a) ==
    /\ backend = "local" /\ MayCall(p)
    /\ ncalls' = ncalls + 1
    /\ LET c == [NewCall("get", a, 0, 0, closedL, IF closedL THEN 0 ELSE FlightTag(sfGetL, a))
                   EXCEPT !.exp = IF a \in ActionIDs THEN ack[a] ELSE NoEntry,
                          !.solo = NoPutInProgress(a)]
       IN LGetEnter(p, c, [NoFrame EXCEPT !.aid = a], [call EXCEPT ![p] = c])
    /\ UNCHANGED <<outerVars, bl, diskVars, sfPutL, closedL, blobVars, ack>>

IOOutcomes == {"ok", "fail"}

\* get: os.Open(actionPath) and ReadEntryMeta.
LGetOpen(p) ==
    /\ pc[p] = "lget_open"
    /\ \E io \in IOOutcomes :
        LET a == fr[p].aid
            m == actionFile[a]
        IN IF io = "fail"
           THEN FinishLGet(p, RErr("io"))
           ELSE IF m.k = "none"
           THEN FinishLGet(p, RMiss)
           ELSE IF m.k # "meta"
           THEN FinishLGet(p, RErr("read-meta"))
           ELSE IF m.aid # a
           THEN FinishLGet(p, RErr("action-id-mismatch"))
           ELSE /\ fr' = [fr EXCEPT ![p].meta = m]
                /\ pc' = [pc EXCEPT ![p] = "lget_stat"]
                /\ returned' = {}
                /\ UNCHANGED <<call, res, bl, sfGetL, sfPutL, sfGetB>>
    /\ UNCHANGED <<outerVars, ncalls, diskVars, closedL, closedB, upl, poolStopped, arCur,
                   remoteAr, remote, lifecycle, closeSt, elapsed, bucketClosed, ack>>

\* get: os.Stat(outputPath), pruning, and the hit.  os.Remove takes a directory away only
\* when it is empty.
LGetStat(p) ==
    /\ pc[p] = "lget_stat"
    /\ LET m == fr[p].meta
           a == fr[p].aid
       IN IF m.size = 0
          THEN /\ FinishLGet(p, RHit(m.oid, m.size, m.time, EmptyPath))
               /\ UNCHANGED diskVars
          ELSE IF outputFile[m.oid] = -1
          THEN /\ actionFile' = [actionFile EXCEPT ![a] = NoEntry]
               /\ FinishLGet(p, RErr("stat"))
               /\ UNCHANGED <<outputFile, tmpLeft>>
          ELSE IF outputFile[m.oid] = OutputIsDir
          THEN /\ actionFile' = [actionFile EXCEPT ![a] = NoEntry]
               /\ \E left \in {-1, OutputIsDir} :
                     outputFile' = [outputFile EXCEPT ![m.oid] = left]
               /\ FinishLGet(p, RErr("is-dir"))
               /\ UNCHANGED tmpLeft
          ELSE IF outputFile[m.oid] # m.size
          THEN /\ actionFile' = [actionFile EXCEPT ![a] = NoEntry]
               /\ outputFile' = [outputFile EXCEPT ![m.oid] = -1]
               /\ FinishLGet(p, RErr("size-mismatch"))
               /\ UNCHANGED tmpLeft
          ELSE /\ FinishLGet(p, RHit(m.oid, m.size, m.time, m.oid))
               /\ UNCHANGED diskVars
    /\ UNCHANGED <<outerVars, ncalls, closedL, closedB, upl, poolStopped, arCur, remoteAr,
                   remote, lifecycle, closeSt, elapsed, bucketClosed, ack>>

\* API call Put on the local backend: request (a, o, BodySize = SizeOf(o)), a body of n bytes.
LPutCall(p, a, o, n) ==
    /\ backend = "local" /\ MayCall(p)
    /\ ncalls' = ncalls + 1
    /\ LET c == NewCall("put", a, o, n, closedL, IF closedL THEN 0 ELSE FlightTag(sfPutL, a))
       IN /\ LPutEnter(p, c, [NoFrame EXCEPT !.aid = a, !.oid = o, !.size = SizeOf(o), !.n = n],
                       CallsAfterPutArrives(p, c))
          /\ ack' = IF closedL \/ actionPathPanics(a) THEN ack ELSE AckAfterPutArrives(a)
    /\ UNCHANGED <<outerVars, bl, diskVars, sfGetL, closedL, blobVars>>

\* diskStore.Put called from BlobBackend.
LPutFromBlob(p) ==
    /\ pc[p] = "lput_enter"
    /\ LPutEnter(p, call[p], fr[p], call)
    /\ UNCHANGED <<outerVars, bl, ncalls, diskVars, sfGetL, closedL, blobVars, ack>>

\* A put that does not compare the byte count.
SizeCheckNever(bodySize, n) == FALSE

\* put: n != opts.Req.BodySize, after io.Copy into the temp file.
SizeCheckFails(bodySize, n) == n # bodySize

\* put, the body: create the temp output file, copy the body into it, compare the count.
\* The I/O may fail before the temp file exists, or while the body is read into it.
\* With BodySize = 0 the body is not read: the shared empty output is used, and the temp
\* action file is written.
LPutBody(p) ==
    /\ pc[p] = "lput_body"
    /\ \E io \in IOOutcomes \cup {"read-fail"} :
        IF io = "fail"
        THEN FinishLPut(p, RErr("io"), fr[p]) /\ UNCHANGED tmpLeft
        ELSE IF io = "read-fail"
        THEN /\ fr[p].size > 0
             /\ tmpLeft' = tmpLeft + 1
             /\ FinishLPut(p, RErr("io"), fr[p])
        ELSE IF fr[p].size > 0 /\ SizeCheckFails(fr[p].size, fr[p].n)
        THEN /\ tmpLeft' = tmpLeft + 1
             /\ FinishLPut(p, RErr("size-mismatch"), fr[p])
        ELSE /\ tmpLeft' = tmpLeft + 1
             /\ pc' = [pc EXCEPT ![p] = IF fr[p].size > 0 THEN "lput_rename_out"
                                        ELSE "lput_rename_act"]
             /\ returned' = {}
             /\ UNCHANGED <<call, fr, res, sfPutL, ack>>
    /\ UNCHANGED <<outerVars, bl, ncalls, actionFile, outputFile, sfGetL, closedL, blobVars>>

\* A put that leaves the output under its temp name.
LPutRenameOutSkipped(p) ==
    /\ pc[p] = "lput_rename_out"
    /\ pc' = [pc EXCEPT ![p] = "lput_rename_act"]
    /\ returned' = {}
    /\ UNCHANGED <<outerVars, call, fr, bl, res, ncalls, diskVars, localVars, blobVars, ack>>

\* put: os.Rename(outputPathTmp, outputPath), then the temp action file is written.  The
\* rename fails when the output path names a directory.
LPutRenameOut(p) ==
    /\ pc[p] = "lput_rename_out"
    /\ IF outputFile[fr[p].oid] = OutputIsDir
       THEN /\ FinishLPut(p, RErr("rename"), fr[p])
            /\ UNCHANGED outputFile
       ELSE /\ outputFile' = [outputFile EXCEPT ![fr[p].oid] = fr[p].n]
            /\ fr' = [fr EXCEPT ![p].touched = TRUE]
            /\ pc' = [pc EXCEPT ![p] = "lput_rename_act"]
            /\ returned' = {}
            /\ UNCHANGED <<call, res, sfPutL, ack>>
    /\ UNCHANGED <<outerVars, bl, ncalls, actionFile, tmpLeft, sfGetL, closedL, blobVars>>

\* The EntryMeta put writes: the request's ids and size, Time = OverrideTime or now.
PutMeta(f) == Meta(f.aid, f.oid, f.size, f.time)

\* A put that answers with the output path of its OutputID whatever the size.
PutDiskPathOfOutput(f) == f.oid

\* PutResponse.DiskPath: the output path, or the shared empty output.
PutDiskPath(f) == IF f.size > 0 THEN f.oid ELSE EmptyPath

\* put: os.Rename(actionPathTmp, actionPath), and the response.
LPutRenameAct(p) ==
    /\ pc[p] = "lput_rename_act"
    /\ actionFile' = [actionFile EXCEPT ![fr[p].aid] = PutMeta(fr[p])]
    /\ tmpLeft' = tmpLeft - 1
    /\ FinishLPut(p, RPutOk(PutDiskPath(fr[p])), [fr[p] EXCEPT !.touched = TRUE])
    /\ UNCHANGED <<outerVars, bl, ncalls, outputFile, sfGetL, closedL, blobVars>>

\* LocalBackend.Close, called on the local backend.
LCloseCall(p) ==
    /\ backend = "local" /\ MayCall(p) /\ ~closedL
    /\ ncalls' = ncalls + 1
    /\ closedL' = TRUE
    /\ ReturnsAtOnce(p, NewCall("close", EmptyID, 0, 0, FALSE, 0), NoRes)
    /\ UNCHANGED <<outerVars, call, diskVars, sfGetL, sfPutL, blobVars, ack>>

\* ===================================================== BlobBackend, the calls
\* API call Get on the blob backend.
BGetCall(p, a) ==
    /\ backend = "blob" /\ MayCall(p)
    /\ ncalls' = ncalls + 1
    /\ LET c == [NewCall("get", a, 0, 0, closedB, IF closedB THEN 0 ELSE FlightTag(sfGetB, a))
                   EXCEPT !.exp = IF a \in ActionIDs THEN ack[a] ELSE NoEntry,
                          !.solo = NoPutInProgress(a)]
       IN IF closedB
          THEN ReturnsAtOnce(p, c, RErr("closed")) /\ UNCHANGED <<call, sfGetB>>
          ELSE IF a = EmptyID
          THEN \* get: len(ActionID) == 0 is an error of the flight
               /\ ReturnsAtOnce(p, c, BGetWrap(RErr("empty-action-id"), a))
               /\ UNCHANGED <<call, sfGetB>>
          ELSE /\ call' = [call EXCEPT ![p] = c]
               /\ returned' = {}
               /\ UNCHANGED <<fr, bl, res>>
               /\ IF SfLeads(sfGetB, a)
                  THEN /\ pc' = [pc EXCEPT ![p] = "bget_ar"]
                       /\ sfGetB' = [sfGetB EXCEPT ![a] = p]
                  ELSE /\ pc' = [pc EXCEPT ![p] = "bget_wait"]
                       /\ UNCHANGED sfGetB
    /\ UNCHANGED <<outerVars, diskVars, localVars, closedB, upl, poolStopped, arCur, remoteAr,
                   remote, lifecycle, closeSt, elapsed, bucketClosed, ack>>

\* get: archiveStore.GetBlob, and the fast path for an empty entry; else diskStore.Get,
\* up to the start of its flight.
BGetAr(p) ==
    /\ pc[p] = "bget_ar"
    /\ LET a == call[p].aid
           ar == GetBlob(a)
       IN IF ar.k = "ar" /\ ar.size = 0
          THEN /\ FinishBGet(p, RHit(ar.oid, ar.size, ar.time, EmptyPath),
                             [bl[p] EXCEPT !.ar = ar, !.tier = "archive-fast", !.src = ar])
               /\ UNCHANGED <<fr, sfGetL>>
          ELSE IF closedL
          THEN /\ FinishBGet(p, RErr("closed"), [bl[p] EXCEPT !.ar = ar])
               /\ UNCHANGED <<fr, sfGetL>>
          ELSE /\ bl' = [bl EXCEPT ![p].ar = ar]
               /\ LGetEnter(p, call[p], [NoFrame EXCEPT !.aid = a, !.ret = "bget_disk"], call)
               /\ UNCHANGED sfGetB
    /\ UNCHANGED <<outerVars, ncalls, diskVars, sfPutL, closedL, closedB, upl, poolStopped, arCur,
                   remoteAr, remote, lifecycle, closeSt, elapsed, bucketClosed, ack>>

\* A bucket operation under a context derived from store.lifecycle fails once the
\* lifecycle is cancelled or the bucket is closed.
RemoteUp == lifecycle = "live" /\ ~bucketClosed

\* A get that takes the downloaded object without comparing its ActionID.
BGetRemoteUnverified(p) ==
    /\ pc[p] = "bget_remote"
    /\ \E io \in IOOutcomes :
        LET a == call[p].aid
            obj == remote[a]
            b == [bl[p] EXCEPT !.robj = obj]
        IN IF io = "fail" \/ ~RemoteUp
           THEN FinishBGet(p, RErr("remote"), bl[p])
                /\ UNCHANGED <<fr, sfPutL>>
           ELSE IF obj.k = "none"
           THEN FinishBGet(p, RMiss, b) /\ UNCHANGED <<fr, sfPutL>>
           ELSE IF obj.k # "obj"
           THEN FinishBGet(p, RErr("read-meta"), b) /\ UNCHANGED <<fr, sfPutL>>
           ELSE BGetMaterialize(p, [b EXCEPT !.src = obj, !.tier = "download"])
    /\ UNCHANGED <<outerVars, ncalls, diskVars, sfGetL, closedL, closedB, upl, poolStopped, arCur,
                   remoteAr, remote, lifecycle, closeSt, elapsed, bucketClosed, ack>>

\* get: bucket.NewReader(CacheEntityKey(ActionID)), ReadEntryMeta, the ActionID check,
\* and diskStore.Put of the object up to the start of its flight.
BGetRemote(p) ==
    /\ pc[p] = "bget_remote"
    /\ \E io \in IOOutcomes :
        LET a == call[p].aid
            obj == remote[a]
            b == [bl[p] EXCEPT !.robj = obj]
        IN IF io = "fail" \/ ~RemoteUp
           THEN FinishBGet(p, RErr("remote"), bl[p])
                /\ UNCHANGED <<fr, sfPutL>>
           ELSE IF obj.k = "none"
           THEN FinishBGet(p, RMiss, b) /\ UNCHANGED <<fr, sfPutL>>
           ELSE IF obj.k # "obj"
           THEN FinishBGet(p, RErr("read-meta"), b) /\ UNCHANGED <<fr, sfPutL>>
           ELSE IF obj.aid # a
           THEN FinishBGet(p, RErr("action-id-mismatch"), b) /\ UNCHANGED <<fr, sfPutL>>
           ELSE BGetMaterialize(p, [b EXCEPT !.src = obj, !.tier = "download"])
    /\ UNCHANGED <<outerVars, ncalls, diskVars, sfGetL, closedL, closedB, upl, poolStopped, arCur,
                   remoteAr, remote, lifecycle, closeSt, elapsed, bucketClosed, ack>>

\* get, after diskStore.Put of the source entry: the hit carries the source's OutputID, Size
\* and Time, and the DiskPath diskStore.Put returned.
BGetPut(p) ==
    /\ pc[p] = "bget_put"
    /\ IF res[p].k = "err"
       THEN FinishBGet(p, res[p], bl[p])
       ELSE FinishBGet(p, RHit(bl[p].src.oid, bl[p].src.size, bl[p].src.time, res[p].path),
                       bl[p])
    /\ UNCHANGED <<outerVars, fr, ncalls, diskVars, localVars, closedB, upl, poolStopped, arCur,
                   remoteAr, remote, lifecycle, closeSt, elapsed, bucketClosed, ack>>

\* API call Put on the blob backend: the closed check, then diskStore.Put(opts).
BPutCall(p, a, o, n) ==
    /\ backend = "blob" /\ MayCall(p)
    /\ ncalls' = ncalls + 1
    /\ LET c == NewCall("put", a, o, n, closedB, 0)
       IN IF closedB
          THEN ReturnsAtOnce(p, c, RErr("closed")) /\ UNCHANGED <<call, ack>>
          ELSE /\ call' = CallsAfterPutArrives(p, c)
               /\ ack' = IF a \in ActionIDs THEN AckAfterPutArrives(a) ELSE ack
               /\ pc' = [pc EXCEPT ![p] = "lput_enter"]
               /\ fr' = [fr EXCEPT ![p] = [NoFrame EXCEPT !.aid = a, !.oid = o,
                                             !.size = SizeOf(o), !.n = n, !.ret = "bput_up"]]
               /\ returned' = {}
               /\ UNCHANGED <<bl, res>>
    /\ UNCHANGED <<outerVars, diskVars, localVars, blobVars>>

\* The flight sfUpload.DoChan starts for a Put: doBgUpload(opts, diskPutResp.DiskPath).
UploadTask(c, path) ==
    [st |-> "new", aid |-> c.aid, oid |-> c.oid, size |-> c.size, path |-> path, blen |-> 0,
     pre |-> ~closedB]

\* uploadQueue.RunningWorkers()
RunningWorkers == Cardinality({a \in ActionIDs : upl[a].st = "running"})

\* A Put that waits for a free upload worker before it starts the upload flight.
BPutUpWaits(p) ==
    /\ pc[p] = "bput_up"
    /\ res[p].k # "err" => RunningWorkers < UploadConcurrency
    /\ pc' = [pc EXCEPT ![p] = "idle"]
    /\ call' = [call EXCEPT ![p] = NoCall]
    /\ res' = [res EXCEPT ![p] = NoRes]
    /\ IF res[p].k = "err"
       THEN /\ returned' = {Response(p, call[p], NoFrame, NoBl, RErr("disk-put"), TRUE)}
            /\ UNCHANGED <<upl, ack>>
       ELSE /\ returned' = {Response(p, call[p], NoFrame, NoBl, RPutOk(res[p].path), FALSE)}
            /\ upl' = IF upl[call[p].aid].st = "none"
                      THEN [upl EXCEPT ![call[p].aid] = UploadTask(call[p], res[p].path)]
                      ELSE upl
            /\ ack' = IF call[p].solo
                      THEN [ack EXCEPT ![call[p].aid] = AckEntry(call[p].oid, call[p].size)]
                      ELSE ack
    /\ UNCHANGED <<outerVars, fr, bl, ncalls, diskVars, localVars, closedB, sfGetB, poolStopped,
                   arCur, remoteAr, remote, lifecycle, closeSt, elapsed, bucketClosed>>

\* Put, after diskStore.Put: its error; else sfUpload.DoChan, which starts the upload flight
\* in a goroutine of its own unless one is in flight for the ActionID, and the response.
BPutUp(p) ==
    /\ pc[p] = "bput_up"
    /\ pc' = [pc EXCEPT ![p] = "idle"]
    /\ call' = [call EXCEPT ![p] = NoCall]
    /\ res' = [res EXCEPT ![p] = NoRes]
    /\ IF res[p].k = "err"
       THEN /\ returned' = {Response(p, call[p], NoFrame, NoBl, RErr("disk-put"), TRUE)}
            /\ UNCHANGED <<upl, ack>>
       ELSE /\ returned' = {Response(p, call[p], NoFrame, NoBl, RPutOk(res[p].path), FALSE)}
            /\ upl' = IF upl[call[p].aid].st = "none"
                      THEN [upl EXCEPT ![call[p].aid] = UploadTask(call[p], res[p].path)]
                      ELSE upl
            /\ ack' = IF call[p].solo
                      THEN [ack EXCEPT ![call[p].aid] = AckEntry(call[p].oid, call[p].size)]
                      ELSE ack
    /\ UNCHANGED <<outerVars, fr, bl, ncalls, diskVars, localVars, closedB, sfGetB, poolStopped,
                   arCur, remoteAr, remote, lifecycle, closeSt, elapsed, bucketClosed>>

\* The flight's goroutine: uploadQueue.Submit.  A stopped pool runs nothing more, and
\* task.Wait returns at once.
UpSubmit(a) ==
    /\ upl[a].st = "new"
    /\ upl' = [upl EXCEPT ![a] = IF poolStopped
                                 THEN UplEnded(IF upl[a].pre THEN "dropped" ELSE "dropped-late")
                                 ELSE [@ EXCEPT !.st = "queued"]]
    /\ returned' = {}
    /\ UNCHANGED <<outerVars, procVars, ncalls, diskVars, localVars, closedB, sfGetB,
                   poolStopped, arCur, remoteAr, remote, lifecycle, closeSt, elapsed,
                   bucketClosed, ack>>

\* The bytes os.Open(payloadPathOnDisk) will read: -1 when the file is absent.
PayloadLen(path) == IF path = EmptyPath THEN 0 ELSE outputFile[path]

\* A pool worker takes the task: doBgUpload up to the opening of the payload file.
UpStart(a) ==
    /\ upl[a].st = "queued"
    /\ RunningWorkers < UploadConcurrency
    /\ upl' = [upl EXCEPT ![a] =
                 IF upl[a].size > 0
                 THEN IF PayloadLen(upl[a].path) = -1
                      THEN UplEnded("failed")
                      ELSE [@ EXCEPT !.st = "running", !.blen = PayloadLen(upl[a].path)]
                 ELSE [@ EXCEPT !.st = "running", !.blen = 0]]
    /\ returned' = {}
    /\ UNCHANGED <<outerVars, procVars, ncalls, diskVars, localVars, closedB, sfGetB,
                   poolStopped, arCur, remoteAr, remote, lifecycle, closeSt, elapsed,
                   bucketClosed, ack>>

\* The object doBgUpload writes: the EntryMeta of the Put's request, then the payload read.
UploadedObject(t) == Obj(t.aid, t.oid, t.size, "now", t.blen, "upload")

\* doBgUpload: bucket.Upload(ctx, CacheEntityKey(ActionID), meta || payload); the flight ends.
UpWrite(a) ==
    /\ upl[a].st = "running"
    /\ \E io \in IOOutcomes :
        IF io = "fail" \/ ~RemoteUp
        THEN /\ remote' = remote
             /\ upl' = [upl EXCEPT ![a] = UplEnded("failed")]
        ELSE /\ remote' = [remote EXCEPT ![upl[a].aid] = UploadedObject(upl[a])]
             /\ upl' = [upl EXCEPT ![a] = UplEnded("uploaded")]
    /\ returned' = {}
    /\ UNCHANGED <<outerVars, procVars, ncalls, diskVars, localVars, closedB, sfGetB,
                   poolStopped, arCur, remoteAr, lifecycle, closeSt, elapsed, bucketClosed,
                   ack>>

\* API call Close on the blob backend: the closed flag, then the goroutine for StopAndWait.
BCloseCall(p) ==
    /\ backend = "blob" /\ MayCall(p) /\ closeSt = "open"
    /\ ncalls' = ncalls + 1
    /\ call' = [call EXCEPT ![p] = NewCall("close", EmptyID, 0, 0, FALSE, 0)]
    /\ closedB' = TRUE
    /\ closeSt' = "waiting"
    /\ pc' = [pc EXCEPT ![p] = "bclose_select"]
    /\ returned' = {}
    /\ UNCHANGED <<outerVars, fr, bl, res, diskVars, localVars, sfGetB, upl, poolStopped, arCur,
                   remoteAr, remote, lifecycle, elapsed, bucketClosed, ack>>

\* Close's goroutine: uploadQueue.StopAndWait stops the pool.
PoolStop ==
    /\ closeSt = "waiting" /\ ~poolStopped
    /\ poolStopped' = TRUE
    /\ returned' = {}
    /\ UNCHANGED <<outerVars, procVars, ncalls, diskVars, localVars, closedB, sfGetB, upl,
                   arCur, remoteAr, remote, lifecycle, closeSt, elapsed, bucketClosed, ack>>

\* StopAndWait has returned: the pool is stopped and holds no task.
FullyStopped ==
    poolStopped /\ \A a \in ActionIDs : upl[a].st \notin {"queued", "running"}

\* Time passes while Close waits: MaxCloseTimeout, then 3 more seconds.
Tick ==
    /\ closeSt = "waiting" /\ elapsed < 2
    /\ elapsed' = elapsed + 1
    /\ returned' = {}
    /\ UNCHANGED <<outerVars, procVars, ncalls, diskVars, localVars, closedB, sfGetB, upl,
                   poolStopped, arCur, remoteAr, remote, lifecycle, closeSt, bucketClosed,
                   ack>>

\* Close, select case <-cancelTimeout: lifecycleClose().
BCloseCancel(p) ==
    /\ pc[p] = "bclose_select"
    /\ elapsed >= 1 /\ lifecycle = "live"
    /\ lifecycle' = "cancelled"
    /\ returned' = {}
    /\ UNCHANGED <<outerVars, procVars, ncalls, diskVars, localVars, closedB, sfGetB, upl,
                   poolStopped, arCur, remoteAr, remote, closeSt, elapsed, bucketClosed, ack>>

\* Close, select cases <-quitTimeout and <-fullyStopped: return; the deferred
\* diskStore.Close() and bucket.Close() run.
BCloseReturn(p) ==
    /\ pc[p] = "bclose_select"
    /\ elapsed = 2 \/ FullyStopped
    /\ closedL' = TRUE
    /\ bucketClosed' = TRUE
    /\ closeSt' = "returned"
    /\ pc' = [pc EXCEPT ![p] = "idle"]
    /\ call' = [call EXCEPT ![p] = NoCall]
    /\ returned' = {Response(p, call[p], NoFrame, NoBl, NoRes, FALSE)}
    /\ UNCHANGED <<outerVars, fr, bl, res, ncalls, diskVars, sfGetL, sfPutL, closedB, sfGetB,
                   upl, poolStopped, arCur, remoteAr, remote, lifecycle, elapsed, ack>>

\* Minimum number of new small objects for a compaction job to build a bundle.
CompactionAtLeastAddFiles == 10

\* API call Compact on the blob backend (Open also makes it, in a goroutine).
BCompactCall(p) ==
    /\ backend = "blob" /\ MayCall(p)
    /\ ncalls' = ncalls + 1
    /\ LET c == NewCall("compact", EmptyID, 0, 0, closedB, 0)
       IN IF closedB
          THEN ReturnsAtOnce(p, c, RErr("closed")) /\ UNCHANGED call
          ELSE /\ pc' = [pc EXCEPT ![p] = "compact_sync"]
               /\ call' = [call EXCEPT ![p] = c]
               /\ returned' = {}
               /\ UNCHANGED <<fr, bl, res>>
    /\ UNCHANGED <<outerVars, diskVars, localVars, blobVars, ack>>

\* CompactionJob.work: ArStore.SyncFromRemote installs the remote bundle as the current
\* reader (its context is not derived from the lifecycle).
CompactSync(p) ==
    /\ pc[p] = "compact_sync"
    /\ \E io \in IOOutcomes :
        arCur' = IF io = "fail" \/ bucketClosed \/ remoteAr.k = "none"
                 THEN arCur ELSE remoteAr.entries
    /\ pc' = [pc EXCEPT ![p] = "compact_list"]
    /\ returned' = {}
    /\ UNCHANGED <<outerVars, call, fr, bl, res, ncalls, diskVars, localVars, closedB, sfGetB,
                   upl, poolStopped, remoteAr, remote, lifecycle, closeSt, elapsed,
                   bucketClosed, ack>>

\* step1FindBlobsToCompact: the listed small objects that the current bundle lacks.
NewlyAdded == {a \in ActionIDs : remote[a].k # "none" /\ arCur[a].k = "none"}

\* CompactionJob.work: step1FindBlobsToCompact; with fewer than CompactionAtLeastAddFiles
\* new objects (or a failed listing) the job ends here.
CompactList(p) ==
    /\ pc[p] = "compact_list"
    /\ IF RemoteUp /\ Cardinality(NewlyAdded) >= CompactionAtLeastAddFiles
       THEN /\ pc' = [pc EXCEPT ![p] = "compact_fill"]
            /\ returned' = {}
            /\ UNCHANGED call
       ELSE /\ pc' = [pc EXCEPT ![p] = "idle"]
            /\ call' = [call EXCEPT ![p] = NoCall]
            /\ returned' = {Response(p, call[p], NoFrame, NoBl, RPutOk(EmptyPath), FALSE)}
    /\ UNCHANGED <<outerVars, fr, bl, res, ncalls, diskVars, localVars, blobVars, ack>>

\* ===================================================== initial states
\* The cache directory when the backend is opened: empty, or holding the entry a Put for
\* ActionID 1 left there in an earlier run.
DiskSamples == {NoEntry, Meta(1, 1, SizeOf(1), "t0")}

InitLocalDisk(m) ==
    /\ actionFile = [a \in ActionIDs |-> IF a = 1 THEN m ELSE NoEntry]
    /\ outputFile = [o \in OutputIDs |-> IF m.k = "meta" /\ m.size > 0 /\ o = m.oid
                                         THEN m.size ELSE -1]
    /\ tmpLeft = 0
    /\ sfGetL = [a \in ActionIDs |-> 0]
    /\ sfPutL = [a \in ActionIDs |-> 0]
    /\ closedL = FALSE

InitProcs ==
    /\ ncalls = 0
    /\ pc = [p \in Procs |-> "idle"]
    /\ call = [p \in Procs |-> NoCall]
    /\ fr = [p \in Procs |-> NoFrame]
    /\ bl = [p \in Procs |-> NoBl]
    /\ res = [p \in Procs |-> NoRes]
    /\ returned = {}
    /\ ack = [a \in ActionIDs |-> NoEntry]

InitBlobIdle ==
    /\ closedB = FALSE
    /\ sfGetB = [a \in ActionIDs |-> 0]
    /\ upl = [a \in ActionIDs |-> NoUpl]
    /\ poolStopped = FALSE
    /\ lifecycle = "live"
    /\ closeSt = "open"
    /\ elapsed = 0
    /\ bucketClosed = FALSE

NoBundle == [a \in ActionIDs |-> NoEntry]

\* What the bucket holds under the key of ActionID 1 when the backend is opened: nothing,
\* an object a host sharing the bucket uploaded, one whose upload was cut short, one whose
\* EntryMeta names another ActionID, or bytes that are no EntryMeta.
BucketSamples ==
    {NoEntry,
     Obj(1, 1, 1, "t0", 1, "peer"),
     Obj(1, 1, 1, "t0", 0, "peer"),
     Obj(2, 1, 1, "t0", 1, "peer"),
     Garbage}

\* The entry named hex(ActionID 1) of the bundle synced at Open.
BundleSamples ==
    {NoEntry, ArEnt(1, 0, 0, "t0"), ArEnt(1, 1, 1, "t0"), ArEnt(2, 1, 1, "t0")}

\* <<current bundle entry, standalone object, remote bundle>> at Open.
OpenedWith ==
    {<<NoEntry, o, NoEntry>> : o \in BucketSamples}
      \cup {<<e, NoEntry, NoEntry>> : e \in BundleSamples}
      \cup {<<NoEntry, NoEntry,
              [k |-> "bundle", entries |-> [NoBundle EXCEPT ![1] = ArEnt(1, 0, 0, "t0")]]>>}

\* The local backend, opened on its directory.
InitLocal ==
    /\ backend = "local"
    /\ InitProcs /\ InitBlobIdle
    /\ \E m \in DiskSamples : InitLocalDisk(m)
    /\ arCur = NoBundle
    /\ remoteAr = NoEntry
    /\ remote = [a \in ActionIDs |-> NoEntry]

\* The blob backend, opened on an empty directory and a bucket other hosts share.
InitBlob ==
    /\ backend = "blob"
    /\ InitProcs /\ InitLocalDisk(NoEntry) /\ InitBlobIdle
    /\ \E w \in OpenedWith :
        /\ arCur = [NoBundle EXCEPT ![1] = w[1]]
        /\ remote = [a \in ActionIDs |-> IF a = 1 THEN w[2] ELSE NoEntry]
        /\ remoteAr = w[3]

\* No backend configured: the state of the cache backends while another component runs.
InitCacheIdle ==
    /\ backend = "none"
    /\ InitProcs /\ InitLocalDisk(NoEntry) /\ InitBlobIdle
    /\ arCur = NoBundle
    /\ remoteAr = NoEntry
    /\ remote = [a \in ActionIDs |-> NoEntry]

\* ===================================================== CompactionJob
\* One keyspace: the small objects of the bucket under b/<k>, the remote bundle blobar/k.zip,
\* the bundle the local store has installed, and the runs of the compaction job for it.
NumObjects == 11
MaxSkips == 1
MaxRuns == 2
MaxEnvChanges == 1

Names == 1..NumObjects

\* A bundle: how many entries it holds under each name.  NoAr: no bundle.
NoAr == [k |-> "none"]
SetAr(S) == [k |-> "ar", cnt |-> [n \in Names |-> IF n \in S THEN 1 ELSE 0]]

\* ArReader.List: the names of the entries map.
ArNames(ar) == IF ar.k = "none" THEN {} ELSE {n \in Names : ar.cnt[n] > 0}

NoPrev == [ran |-> FALSE]
NoJob == [pc |-> "idle", run |-> 0, sync |-> "none", planned |-> {}, added |-> 0, removed |-> 0,
          included |-> 0, failed |-> {}, isSkipped |-> FALSE, err |-> "none", newArFile |-> NoAr,
          arAtList |-> NoAr, remoteAtStart |-> NoAr, changesAtList |-> 0,
          installed |-> FALSE, uploaded |-> FALSE, prev |-> NoPrev,
          temp |-> "none", odd |-> {}, bad |-> "none", corrupted |-> 0, fault |-> FALSE]

InitJobIdle ==
    /\ job = NoJob
    /\ jobEnv = [objects |-> {}, large |-> {}, remoteAr |-> NoAr, localAr |-> NoAr,
                 synced |-> FALSE, runs |-> 0, changes |-> 0,
                 life |-> "open", bucket |-> "open"]

\* ===================================================== CacheProg
\* The GOCACHEPROG engine: Run, the read loop, one handler goroutine per dispatched record,
\* and the response records on stdout.  A record's ID is its position in the input.
MaxRecords == 3
MaxChunks == 2

RecIds == 1..MaxRecords

\* A put record is followed by its body, read as `chunks` line chunks (0: BodySize = 0); the
\* input may end after `have` of them.
Rec(cmd, chunks, have) == [cmd |-> cmd, chunks |-> chunks, have |-> have]

Records ==
    {Rec(c, 0, 0) : c \in {"get", "unknown", "close", "garbage"}}
      \cup {Rec("put", n, h) : n \in 0..MaxChunks, h \in 0..MaxChunks}

NoHand == [st |-> "none", cmd |-> "none", pipe |-> "none", got |-> 0, err |-> FALSE]
NoOut == [cnt |-> [i \in 0..MaxRecords |-> 0], err |-> [i \in 0..MaxRecords |-> FALSE]]
NoProg == [inp |-> <<>>, run |-> "init", rl |-> "none", pos |-> 1, chunk |-> 0,
           cause |-> "none", ended |-> "no", wfail |-> FALSE]

InitProgIdle ==
    /\ prog = NoProg
    /\ hand = [i \in RecIds |-> NoHand]
    /\ stdout = NoOut

\* CacheProg over its input lines, not started.
NoLr == [lines |-> <<>>, idx |-> 1, off |-> 0, mode |-> "idle", ended |-> "no",
         disp |-> <<>>]

InitLineIdle == lr = NoLr

\* The key codec, not called.
NoKc == [op |-> "none", key |-> <<>>, id |-> <<>>, res |-> [k |-> "none"]]

InitKeyIdle == kc = NoKc

\* ===================================================== ArLocalStore
\* The bundle local store, for one keyspace: the file blobar/k.zip, the temp files beside it,
\* the readers opened on them, and the reader installed in the map.  A file is an inode:
\* a rename changes what the path names, never what an open reader reads.
NumArProcs == 2
MaxArCalls == 3
NumBundles == 2

ArProcs == 1..NumArProcs
Bundles == 1..NumBundles
Inodes == 1..(MaxArCalls + 1)
ReaderIds == 1..MaxArCalls

\* What a file holds: nothing (removed), the bytes an io.Copy has written so far, bytes
\* that are no zip archive of entries with JSON comments, or the complete bundle b.
FAbsent == [k |-> "absent"]
FPartial == [k |-> "partial"]
FGarbage == [k |-> "garbage"]
FBundle(b) == [k |-> "bundle", b |-> b]

\* The streams handed to Put: the bytes they carry, and whether reading them fails midway.
ArStreams ==
    {[bytes |-> FBundle(b), fails |-> f] : b \in Bundles, f \in BOOLEAN}
      \cup {[bytes |-> FGarbage, fails |-> FALSE]}

NoStream == [bytes |-> FAbsent, fails |-> FALSE]
NoReader == [k |-> "none"]
NoArProc == [pc |-> "idle", op |-> "none", id |-> 0, stream |-> NoStream, ino |-> 0, rd |-> 0]
NoUser == [held |-> 0, opened |-> NoReader, seen |-> NoReader, reads |-> 0, at |-> 0]

\* A reader that accepts any bytes.
ParsesAnything(content) == content.k \in {"bundle", "garbage", "partial"}

\* NewArReader succeeds on a zip archive whose entries all carry a JSON EntryMeta.
Parses(content) == content.k = "bundle"

\* NewArReader(path): the open file and the entries map read from its directory.
NewArReader(ino) ==
    [k |-> "reader", ino |-> ino, files |-> arFs.files[ino], closed |-> FALSE]

\* What a consumer gets from a reader: its entries map and the payload bytes of its file.
ReadVia(r) ==
    IF r = 0 THEN NoReader
    ELSE IF arReaders[r].closed THEN [k |-> "closed"]
    ELSE [k |-> "entries", files |-> arReaders[r].files, payload |-> arFs.files[arReaders[r].ino]]

ArMayCall(p) ==
    /\ arProc[p].pc = "idle"
    /\ arCalls < MaxArCalls
    /\ \A q \in ArProcs : q < p => arProc[q].pc # "idle"

\* A call of the store returns to its caller.
ArReturn(p, failed) ==
    /\ arProc' = [arProc EXCEPT ![p] = NoArProc]
    /\ returned' = {[p |-> p, op |-> arProc[p].op, id |-> arProc[p].id,
                     stream |-> arProc[p].stream, ino |-> arProc[p].ino, err |-> failed]}

\* os.Remove(newFilePathTmp)
RemoveTemp(ino) ==
    [arFs EXCEPT !.files[ino] = FAbsent, !.temps = @ \ {ino}]

\* A set that closes the reader it replaces.
SetClosingOld(r) ==
    /\ arInstalled' = r
    /\ arReaders' = IF arInstalled # 0 /\ arInstalled # r
                    THEN [arReaders EXCEPT ![arInstalled].closed = TRUE]
                    ELSE arReaders

\* set: s.readers[keyspace] = arReader; the old reader is not closed.
ArSet(r) ==
    /\ arInstalled' = r
    /\ UNCHANGED arReaders

\* Put: os.Create(newFilePathTmp).
ArPutCall(p, s) ==
    /\ ArMayCall(p)
    /\ arCalls' = arCalls + 1
    /\ \E io \in IOOutcomes :
        LET c == [NoArProc EXCEPT !.op = "put", !.id = arCalls + 1, !.stream = s]
        IN IF io = "fail"
           THEN /\ arProc' = arProc
                /\ returned' = {[p |-> p, op |-> "put", id |-> c.id, stream |-> s,
                                 ino |-> 0, err |-> TRUE]}
                /\ UNCHANGED arFs
           ELSE /\ arProc' = [arProc EXCEPT ![p] = [c EXCEPT !.pc = "put_copy", !.ino = c.id + 1]]
                /\ arFs' = [arFs EXCEPT !.files[c.id + 1] = FPartial, !.temps = @ \cup {c.id + 1}]
                /\ returned' = {}
    /\ UNCHANGED <<arReaders, arInstalled, arUser, notArl>>

\* Put: io.Copy(newFile, r); on an error the temp file is removed.
ArPutCopy(p) ==
    /\ arProc[p].pc = "put_copy"
    /\ IF arProc[p].stream.fails
       THEN /\ arFs' = RemoveTemp(arProc[p].ino)
            /\ ArReturn(p, TRUE)
       ELSE /\ arFs' = [arFs EXCEPT !.files[arProc[p].ino] = arProc[p].stream.bytes]
            /\ arProc' = [arProc EXCEPT ![p].pc = "put_open"]
            /\ returned' = {}
    /\ UNCHANGED <<arReaders, arInstalled, arUser, arCalls, notArl>>

\* Put: NewArReader(newFilePathTmp); on an error the temp file is removed.
ArPutOpen(p) ==
    /\ arProc[p].pc = "put_open"
    /\ IF Parses(arFs.files[arProc[p].ino])
       THEN /\ arReaders' = [arReaders EXCEPT ![arProc[p].id] = NewArReader(arProc[p].ino)]
            /\ arProc' = [arProc EXCEPT ![p].pc = "put_rename", ![p].rd = arProc[p].id]
            /\ returned' = {}
            /\ UNCHANGED arFs
       ELSE /\ arFs' = RemoveTemp(arProc[p].ino)
            /\ ArReturn(p, TRUE)
            /\ UNCHANGED arReaders
    /\ UNCHANGED <<arInstalled, arUser, arCalls, notArl>>

\* Put: os.Rename(newFilePathTmp, newFilePath); on an error the new reader is closed and the
\* temp file removed.
ArPutRename(p) ==
    /\ arProc[p].pc = "put_rename"
    /\ \E io \in IOOutcomes :
        IF io = "fail"
        THEN /\ arReaders' = [arReaders EXCEPT ![arProc[p].rd].closed = TRUE]
             /\ arFs' = RemoveTemp(arProc[p].ino)
             /\ ArReturn(p, TRUE)
        ELSE /\ arFs' = [arFs EXCEPT !.final = arProc[p].ino, !.temps = @ \ {arProc[p].ino}]
             /\ arProc' = [arProc EXCEPT ![p].pc = "put_set"]
             /\ returned' = {}
             /\ UNCHANGED arReaders
    /\ UNCHANGED <<arInstalled, arUser, arCalls, notArl>>

\* Put: s.set(keyspace, arReader), return nil.
ArPutSet(p) ==
    /\ arProc[p].pc = "put_set"
    /\ ArSet(arProc[p].rd)
    /\ ArReturn(p, FALSE)
    /\ UNCHANGED <<arFs, arUser, arCalls, notArl>>

\* LoadLocal: os.Stat(filePath); an absent file is no error.
ArLoadCall(p) ==
    /\ ArMayCall(p)
    /\ arCalls' = arCalls + 1
    /\ LET c == [NoArProc EXCEPT !.op = "load", !.id = arCalls + 1]
       IN IF arFs.final = 0
          THEN /\ arProc' = arProc
               /\ returned' = {[p |-> p, op |-> "load", id |-> c.id, stream |-> NoStream,
                                ino |-> 0, err |-> FALSE]}
          ELSE /\ arProc' = [arProc EXCEPT ![p] = [c EXCEPT !.pc = "load_open"]]
               /\ returned' = {}
    /\ UNCHANGED <<arFs, arReaders, arInstalled, arUser, notArl>>

\* LoadLocal: NewArReader(filePath), on the file the path names now.
ArLoadOpen(p) ==
    /\ arProc[p].pc = "load_open"
    /\ \E io \in IOOutcomes :
        IF io = "ok" /\ Parses(arFs.files[arFs.final])
        THEN /\ arReaders' = [arReaders EXCEPT ![arProc[p].id] = NewArReader(arFs.final)]
             /\ arProc' = [arProc EXCEPT ![p].pc = "load_set", ![p].rd = arProc[p].id,
                                         ![p].ino = arFs.final]
             /\ returned' = {}
        ELSE /\ ArReturn(p, TRUE)
             /\ UNCHANGED arReaders
    /\ UNCHANGED <<arFs, arInstalled, arUser, arCalls, notArl>>

\* LoadLocal: s.set(keyspace, arReader), return nil.
ArLoadSet(p) ==
    /\ arProc[p].pc = "load_set"
    /\ ArSet(arProc[p].rd)
    /\ ArReturn(p, FALSE)
    /\ UNCHANGED <<arFs, arUser, arCalls, notArl>>

\* Get, by a consumer that keeps the reader: s.readers[keyspace].
ArGet ==
    /\ arUser.held = 0 /\ arInstalled # 0
    /\ arUser' = [NoUser EXCEPT !.held = arInstalled, !.opened = ReadVia(arInstalled)]
    /\ returned' = {}
    /\ UNCHANGED <<arFs, arReaders, arInstalled, arProc, arCalls, notArl>>

\* The consumer reads through the reader it holds: ArReader.Get / List / ArEntry.Open.
ArRead ==
    /\ arUser.held # 0 /\ arUser.reads < 1
    /\ arUser' = [arUser EXCEPT !.seen = ReadVia(arUser.held), !.reads = 1, !.at = arInstalled]
    /\ returned' = {}
    /\ UNCHANGED <<arFs, arReaders, arInstalled, arProc, arCalls, notArl>>

\* The consumer drops the reader.
ArRelease ==
    /\ arUser.held # 0
    /\ arUser' = NoUser
    /\ returned' = {}
    /\ UNCHANGED <<arFs, arReaders, arInstalled, arProc, arCalls, notArl>>

\* The readers some goroutine or the map still refers to.
ArReachable ==
    {arInstalled, arUser.held} \cup {arProc[p].rd : p \in ArProcs}

\* The finalizer set by `set` runs once the reader is unreachable: r.Close().
ArFinalize(r) ==
    /\ arReaders[r] # NoReader /\ ~arReaders[r].closed
    /\ r \notin ArReachable
    /\ arReaders' = [arReaders EXCEPT ![r].closed = TRUE]
    /\ returned' = {}
    /\ UNCHANGED <<arFs, arInstalled, arProc, arUser, arCalls, notArl>>

\* The work directory when the store is constructed: no bundle file, or the one an earlier
\* run renamed into place.
ArDirSamples ==
    {[files |-> [i \in Inodes |-> FAbsent], final |-> 0, temps |-> {}],
     [files |-> [i \in Inodes |-> IF i = 1 THEN FBundle(1) ELSE FAbsent], final |-> 1,
      temps |-> {}]}

InitArIdle ==
    /\ arFs = [files |-> [i \in Inodes |-> FAbsent], final |-> 0, temps |-> {}]
    /\ arReaders = [r \in ReaderIds |-> NoReader]
    /\ arInstalled = 0
    /\ arProc = [p \in ArProcs |-> NoArProc]
    /\ arUser = NoUser
    /\ arCalls = 0

\* NewArLocalStore: an empty readers map.
InitAr ==
    /\ InitCacheIdle /\ InitJobIdle /\ InitProgIdle /\ InitLineIdle /\ InitKeyIdle
    /\ arFs \in ArDirSamples
    /\ arReaders = [r \in ReaderIds |-> NoReader]
    /\ arInstalled = 0
    /\ arProc = [p \in ArProcs |-> NoArProc]
    /\ arUser = NoUser
    /\ arCalls = 0

NextAr ==
    \/ \E p \in ArProcs :
        \/ \E s \in ArStreams : ArPutCall(p, s)
        \/ ArPutCopy(p)
        \/ ArPutOpen(p)
        \/ ArPutRename(p)
        \/ ArPutSet(p)
        \/ ArLoadCall(p)
        \/ ArLoadOpen(p)
        \/ ArLoadSet(p)
    \/ ArGet
    \/ ArRead
    \/ ArRelease
    \/ \E r \in ReaderIds : ArFinalize(r)

SpecAr == InitAr /\ [][NextAr]_vars

\* ----------------------------------------------------- CompactionJob steps
\* An addedCount that lets exactly the threshold through as a skip.
NeedCompactAbove(added) == added > CompactionAtLeastAddFiles

\* step1: `if c.nNewlyAddedFiles < CompactionAtLeastAddFiles { return false, nil }`
NeedCompact(added) == added >= CompactionAtLeastAddFiles

\* A bundle that keeps the entries of the bundle it replaces.
CarryOver(S, old) ==
    [k |-> "ar", cnt |-> [n \in Names |-> (IF n \in S THEN 1 ELSE 0)
                                         + (IF n \in ArNames(old) THEN 1 ELSE 0)]]

\* step2: the writer adds one entry, named by the item's ActionID, for each result it accepts.
FilledAr(S, old) == SetAr(S)

\* An upload that leaves the remote bundle as it was.
UploadDropped(ar, file) == ar

\* IngestNewArchive: Remote.Upload overwrites blobar/k.zip with the file.
Uploaded(ar, file) == file

\* step1: nNewlyAddedFiles: listed items the bundle has no entry for; all of them when there
\* is no bundle.
NNewlyAddedFiles(planned, ar) ==
    IF ar.k = "none" THEN Cardinality(planned)
    ELSE Cardinality({n \in planned : ar.cnt[n] = 0})

\* step1: nNewlyRemovedFiles.
NNewlyRemovedFiles(planned, ar) ==
    IF ar.k = "none" THEN 0 ELSE Cardinality(ArNames(ar) \ planned)

\* What a run leaves for the next one to be compared with.
JobSummary ==
    [ran |-> TRUE,
     full |-> job.err = "none" /\ ~job.isSkipped /\ job.uploaded /\ job.planned # {}
              /\ ArNames(jobEnv.localAr) = job.planned,
     changesAtList |-> job.changesAtList,
     localAr |-> jobEnv.localAr,
     remoteAr |-> jobEnv.remoteAr]

\* A return that cleans up only after a run that ended without an error.
JobReturnKeepsOnError(j, e) ==
    IF e = "none" THEN [j EXCEPT !.pc = "done", !.err = e, !.newArFile = NoAr, !.temp = "none"]
    ELSE [j EXCEPT !.pc = "done", !.err = e]

\* work() returns: the deferred cleanUp closes the writer and the file and removes the temp
\* file.
JobReturn(j, e) == [j EXCEPT !.pc = "done", !.err = e, !.newArFile = NoAr, !.temp = "none"]

\* One item of step2 as the writer sees it: how BlobCache.Get answered, whether os.ReadFile of
\* the DiskPath worked, resp.Size, len(data), the serialized meta size, the listed ObjectSize,
\* and whether ArWriter.Add could write.
OkItem == [get |-> "hit", read |-> "ok", size |-> 1, body |-> 1, meta |-> 2, object |-> 3,
           add |-> "ok"]
BadItem(kind) ==
    CASE kind = "err" -> [OkItem EXCEPT !.get = "err"]
      [] kind = "closed" -> [OkItem EXCEPT !.get = "closed"]
      [] kind = "miss" -> [OkItem EXCEPT !.get = "miss"]
      [] kind = "unreadable" -> [OkItem EXCEPT !.read = "fail"]
      [] kind = "short" -> [OkItem EXCEPT !.body = 0]
      [] kind = "resized" -> [OkItem EXCEPT !.object = 4]
      [] kind = "addfail" -> [OkItem EXCEPT !.add = "fail"]
FaultKinds == {"err", "miss", "unreadable", "short", "resized", "addfail"}
ItemOf(kind) == IF kind = "none" THEN OkItem ELSE BadItem(kind)

\* A writer that does not compare against the listed object size.
WriterAcceptsAnyObjectSize(it) == it.body = it.size

\* step2, the writer: `len(data) != int(r.resp.Size)` and
\* `metaSize+len(data) != int(r.ObjectSize)` skip the item as corrupted.
WriterAccepts(it) == it.body = it.size /\ it.meta + it.body = it.object

\* step2: the skip reason recorded for an item, "none" for an item handed to ArWriter.Add
\* without an error.
ItemSkip(it) ==
    IF it.get \in {"err", "closed"} THEN "other"
    ELSE IF it.get = "miss" THEN "missing"
    ELSE IF it.read = "fail" THEN "io"
    ELSE IF ~WriterAccepts(it) THEN "corrupted"
    ELSE IF it.add = "fail" THEN "io"
    ELSE "none"

\* step2: nIncludedFiles is incremented for every item that passed the checks, also when Add
\* failed.
CountsAsIncluded(it) == it.get = "hit" /\ it.read = "ok" /\ WriterAccepts(it)

\* work: SyncFromRemote (skipped within MinSyncInterval of the last sync; a missing remote
\* bundle is no error; a failure is logged only).
JobStart ==
    /\ job.pc \in {"idle", "done"}
    /\ jobEnv.runs < MaxRuns
    /\ \E sync \in {"recent", "ok", "fail"} :
        /\ sync = "recent" => jobEnv.synced
        /\ sync = "ok" => jobEnv.bucket = "open"
        /\ jobEnv' = [jobEnv EXCEPT
                        !.runs = @ + 1,
                        !.localAr = IF sync = "ok" /\ jobEnv.remoteAr.k # "none"
                                    THEN jobEnv.remoteAr ELSE @,
                        !.synced = @ \/ (sync = "ok" /\ jobEnv.remoteAr.k # "none")]
        /\ job' = [NoJob EXCEPT !.pc = "list", !.run = jobEnv.runs + 1, !.sync = sync,
                                !.remoteAtStart = jobEnv.remoteAr,
                                !.prev = IF job.pc = "done" THEN JobSummary ELSE NoPrev]
    /\ returned' = {}
    /\ UNCHANGED notJob

\* step1FindBlobsToCompact, and the skip in work.
JobList ==
    /\ job.pc = "list"
    /\ \E io \in IOOutcomes :
        LET planned == jobEnv.objects \ jobEnv.large
            ar == jobEnv.localAr
            added == IF planned = {} THEN 0 ELSE NNewlyAddedFiles(planned, ar)
            removed == IF planned = {} THEN 0 ELSE NNewlyRemovedFiles(planned, ar)
            j == [job EXCEPT !.planned = planned, !.added = added, !.removed = removed,
                             !.arAtList = ar, !.changesAtList = jobEnv.changes]
        IN IF io = "fail" \/ jobEnv.life = "cancelled" \/ jobEnv.bucket = "closed"
           THEN job' = JobReturn([job EXCEPT !.arAtList = ar,
                                             !.changesAtList = jobEnv.changes], "list")
           ELSE IF planned = {} \/ ~NeedCompact(added)
           THEN job' = JobReturn([j EXCEPT !.isSkipped = TRUE], "none")
           ELSE job' = [j EXCEPT !.pc = "fill"]
    /\ returned' = {}
    /\ UNCHANGED <<jobEnv, notJob>>

\* step2DownloadAndFill: os.CreateTemp; a Get per item on the pool, which runs no task once
\* the lifecycle is cancelled; the writer skips an item whose Get failed or missed, whose file
\* cannot be read or whose sizes do not match, and adds the others.
JobFill ==
    /\ job.pc = "fill"
    /\ \E io \in IOOutcomes :
        IF io = "fail"
        THEN job' = JobReturn(job, "createtemp")
        ELSE \E B \in SUBSET job.planned, kind \in FaultKinds \cup {"closed", "none"} :
                /\ B = job.planned \/ Cardinality(B) <= MaxSkips
                /\ B = {} <=> kind = "none"
                /\ kind = "closed" => jobEnv.life # "open"
                /\ jobEnv.life = "cancelled" => (B = job.planned /\ kind = "closed")
                /\ LET item(n) == IF n \in B THEN ItemOf(kind) ELSE OkItem
                       S == {n \in job.planned : ItemSkip(item(n)) = "none"}
                   IN job' = [job EXCEPT
                                !.pc = "ingest",
                                !.temp = "open",
                                !.newArFile = FilledAr(S, job.arAtList),
                                !.included =
                                    Cardinality({n \in job.planned : CountsAsIncluded(item(n))}),
                                !.failed = job.planned \ S,
                                !.odd = B,
                                !.bad = kind,
                                !.corrupted =
                                    Cardinality({n \in job.planned :
                                                    ItemSkip(item(n)) = "corrupted"}),
                                !.fault = kind \in FaultKinds]
    /\ returned' = {}
    /\ UNCHANGED <<jobEnv, notJob>>

\* An ingest that overwrites the remote bundle before the local install is known to work.
JobIngestUploadsFirst ==
    /\ job.pc = "ingest"
    /\ \E io \in IOOutcomes :
        IF io = "fail"
        THEN /\ job' = JobReturn(job, "ingest")
             /\ jobEnv' = [jobEnv EXCEPT !.remoteAr = job.newArFile, !.synced = TRUE]
        ELSE /\ jobEnv' = [jobEnv EXCEPT !.localAr = job.newArFile]
             /\ job' = [job EXCEPT !.pc = "upload", !.installed = TRUE, !.temp = "closed"]
    /\ returned' = {}
    /\ UNCHANGED notJob

\* step3IngestNewArFile: the writer and the file are closed; IngestNewArchive: local.Put of
\* the new file.
JobIngest ==
    /\ job.pc = "ingest"
    /\ \E io \in IOOutcomes :
        IF io = "fail"
        THEN job' = JobReturn(job, "ingest") /\ UNCHANGED jobEnv
        ELSE /\ jobEnv' = [jobEnv EXCEPT !.localAr = job.newArFile]
             /\ job' = [job EXCEPT !.pc = "upload", !.installed = TRUE, !.temp = "closed"]
    /\ returned' = {}
    /\ UNCHANGED notJob

\* IngestNewArchive: Remote.Upload of the new file, then lastSyncAt = now.
JobUpload ==
    /\ job.pc = "upload"
    /\ \E io \in IOOutcomes :
        IF io = "fail" \/ jobEnv.bucket = "closed"
        THEN job' = JobReturn(job, "upload") /\ UNCHANGED jobEnv
        ELSE /\ jobEnv' = [jobEnv EXCEPT !.remoteAr = Uploaded(@, job.newArFile),
                                         !.synced = TRUE]
             /\ job' = JobReturn([job EXCEPT !.uploaded = TRUE], "none")
    /\ returned' = {}
    /\ UNCHANGED notJob

\* Another host puts a small object under the keyspace, or a bucket rule deletes one.
JobEnvChange ==
    /\ jobEnv.changes < MaxEnvChanges
    /\ \E n \in Names :
        \/ /\ n \notin jobEnv.objects
           /\ \A m \in Names : m < n => m \in jobEnv.objects
           /\ jobEnv' = [jobEnv EXCEPT !.objects = @ \cup {n}, !.changes = @ + 1]
        \/ /\ n \in jobEnv.objects \ jobEnv.large
           /\ \A m \in Names : m < n => m \notin jobEnv.objects
           /\ jobEnv' = [jobEnv EXCEPT !.objects = @ \ {n}, !.changes = @ + 1]
    /\ returned' = {}
    /\ UNCHANGED <<job, notJob>>

\* BlobBackend.Close: `store.closed.Store(true)`, after which Get answers "blob store is
\* closed".
JobCloseCall ==
    /\ jobEnv.life = "open"
    /\ jobEnv' = [jobEnv EXCEPT !.life = "closed"]
    /\ returned' = {}
    /\ UNCHANGED <<job, notJob>>

\* BlobBackend.Close, cancelTimeout: lifecycleClose() cancels the context the jobs were given.
JobCloseCancel ==
    /\ jobEnv.life = "closed" /\ jobEnv.bucket = "open"
    /\ jobEnv' = [jobEnv EXCEPT !.life = "cancelled"]
    /\ returned' = {}
    /\ UNCHANGED <<job, notJob>>

\* BlobBackend.Close returns (fullyStopped or quitTimeout): the deferred bucket.Close().
JobCloseReturn ==
    /\ jobEnv.life # "open" /\ jobEnv.bucket = "open"
    /\ jobEnv' = [jobEnv EXCEPT !.bucket = "closed"]
    /\ returned' = {}
    /\ UNCHANGED <<job, notJob>>

\* The bundles a bucket or a work directory may hold when the job is constructed.
ArSamples ==
    {SetAr(1..hi) : hi \in 0..NumObjects} \cup {SetAr(lo..NumObjects) : lo \in Names}

\* The keyspace when the job is constructed: n objects, the last of them perhaps of 1 MiB or
\* more; no bundle, the same bundle on both sides (synced at Open), or a bundle on one side.
InitJob ==
    /\ InitCacheIdle /\ InitArIdle /\ InitProgIdle /\ InitLineIdle /\ InitKeyIdle
    /\ job = NoJob
    /\ \E n \in 0..NumObjects, big \in BOOLEAN, ar \in ArSamples,
          where \in {"none", "both", "remote", "local"} :
        /\ where = "none" => ar = SetAr({})
        /\ jobEnv = [objects |-> 1..n,
                     large |-> IF big /\ n > 0 THEN {n} ELSE {},
                     remoteAr |-> IF where \in {"both", "remote"} THEN ar ELSE NoAr,
                     localAr |-> IF where \in {"both", "local"} THEN ar ELSE NoAr,
                     synced |-> where = "both",
                     runs |-> 0, changes |-> 0, life |-> "open", bucket |-> "open"]

NextJob ==
    \/ JobStart
    \/ JobList
    \/ JobFill
    \/ JobIngest
    \/ JobUpload
    \/ JobEnvChange

SpecJob == InitJob /\ [][NextJob]_vars

\* The job of a backend that is closed while the job runs.
NextJobClose ==
    \/ NextJob
    \/ JobCloseCall
    \/ JobCloseCancel
    \/ JobCloseReturn

\* The keyspace of a backend that opened with its bundle synced, or with no bundle.
InitJobClose == InitJob /\ jobEnv.localAr = jobEnv.remoteAr /\ jobEnv.large = {}

SpecJobClose == InitJobClose /\ [][NextJobClose]_vars

\* ----------------------------------------------------- CacheProg steps
\* A read loop that starts a goroutine for the commands it knows only.
DispatchedKnown(cmd) == cmd \in {"get", "put"}

\* readLoop: the records it answers through runAsync: put, get and, by the default branch,
\* any other command but close.
Dispatched(cmd) == cmd \in {"get", "put", "unknown"}

\* A Run that does not wait for the handlers.
WgNoWait == TRUE

\* wg.Wait(): every goroutine started by runAsync has called wg.Done.
WgWait == \A i \in RecIds : hand[i].st # "running"

\* lifecycleCancel(err): the first cancellation sets the cause; a nil error is Canceled.
Cancel(p, failed) ==
    IF p.cause # "none" THEN p
    ELSE [p EXCEPT !.cause = IF failed THEN "error" ELSE "canceled"]

\* writeResponse: one record with the request's ID on stdout.
Respond(o, i, e) == [o EXCEPT !.cnt[i] = @ + 1, !.err[i] = e]

\* A Run that starts the read loop without announcing its capabilities.
ProgRunUnannounced ==
    /\ prog.run = "init"
    /\ prog' = [prog EXCEPT !.run = "waiting", !.rl = "check"]
    /\ returned' = {}
    /\ UNCHANGED <<hand, stdout, notProg>>

\* Run: sendInitialCapability, then the read loop is started.
ProgRun ==
    /\ prog.run = "init"
    /\ \E io \in IOOutcomes :
        IF io = "fail"
        THEN /\ prog' = [prog EXCEPT !.run = "returned", !.wfail = TRUE]
             /\ UNCHANGED stdout
        ELSE /\ prog' = [prog EXCEPT !.run = "waiting", !.rl = "check"]
             /\ stdout' = Respond(stdout, 0, FALSE)
    /\ returned' = {}
    /\ UNCHANGED <<hand, notProg>>

\* readLoop: `select { case <-cp.lifecycle.Done(): return ... default: }`; its return is
\* followed by lifecycleCancel(err) in Run's goroutine.
ProgCheck ==
    /\ prog.rl = "check"
    /\ prog' = IF prog.cause # "none"
               THEN [prog EXCEPT !.rl = "returned", !.ended = "lifecycle"]
               ELSE [prog EXCEPT !.rl = "read"]
    /\ returned' = {}
    /\ UNCHANGED <<hand, stdout, notProg>>

\* readLoop: NextValidLine, json.Unmarshal and the switch on req.Command.
ProgRead ==
    /\ prog.rl = "read"
    /\ IF prog.pos > Len(prog.inp)
       THEN /\ prog' = Cancel([prog EXCEPT !.rl = "returned", !.ended = "eof"], FALSE)
            /\ UNCHANGED hand
       ELSE LET r == prog.inp[prog.pos]
                i == prog.pos
            IN IF r.cmd = "garbage"
               THEN /\ prog' = Cancel([prog EXCEPT !.rl = "returned", !.ended = "error",
                                                   !.pos = i + 1], TRUE)
                    /\ UNCHANGED hand
               ELSE IF r.cmd = "close"
               THEN /\ prog' = Cancel([prog EXCEPT !.rl = "returned", !.ended = "close",
                                                   !.pos = i + 1], FALSE)
                    /\ UNCHANGED hand
               ELSE IF r.cmd = "put"
               THEN /\ hand' = [hand EXCEPT ![i] =
                                  [NoHand EXCEPT !.st = "running", !.cmd = "put",
                                                 !.pipe = IF r.chunks = 0 THEN "eof"
                                                          ELSE "open"]]
                    /\ prog' = IF r.chunks = 0
                               THEN [prog EXCEPT !.rl = "check", !.pos = i + 1]
                               ELSE [prog EXCEPT !.rl = "body", !.chunk = 0]
               ELSE /\ hand' = [hand EXCEPT ![i] =
                                  IF Dispatched(r.cmd)
                                  THEN [NoHand EXCEPT !.st = "running", !.cmd = r.cmd]
                                  ELSE @]
                    /\ prog' = [prog EXCEPT !.rl = "check", !.pos = i + 1]
    /\ returned' = {}
    /\ UNCHANGED <<stdout, notProg>>

\* readLoop, put body: NextValidLine; on an error the pipe is closed with the error and the
\* loop returns; else pipeWrite.Write(lineChunk), which blocks until the handler has read it.
ProgBodyNext ==
    /\ prog.rl = "body"
    /\ LET r == prog.inp[prog.pos]
           i == prog.pos
       IN IF prog.chunk >= r.have
          THEN /\ prog' = Cancel([prog EXCEPT !.rl = "returned", !.ended = "error",
                                              !.pos = i + 1], TRUE)
               /\ hand' = [hand EXCEPT ![i].pipe = "broken"]
          ELSE /\ prog' = [prog EXCEPT !.rl = "write"]
               /\ hand' = [hand EXCEPT ![i].pipe = "full"]
    /\ returned' = {}
    /\ UNCHANGED <<stdout, notProg>>

\* readLoop, put body: Write has returned; after the last chunk pipeWrite.Close().
ProgBodyWritten ==
    /\ prog.rl = "write"
    /\ hand[prog.pos].pipe = "open"
    /\ LET r == prog.inp[prog.pos]
           i == prog.pos
       IN IF prog.chunk + 1 = r.chunks
          THEN /\ prog' = [prog EXCEPT !.rl = "check", !.pos = i + 1, !.chunk = 0]
               /\ hand' = [hand EXCEPT ![i].pipe = "eof"]
          ELSE /\ prog' = [prog EXCEPT !.rl = "body", !.chunk = @ + 1]
               /\ UNCHANGED hand
    /\ returned' = {}
    /\ UNCHANGED <<stdout, notProg>>

\* handler.Put: a Read of the body takes the chunk the read loop is writing.
HandRead(i) ==
    /\ hand[i].st = "running" /\ hand[i].pipe = "full"
    /\ hand' = [hand EXCEPT ![i].pipe = "open", ![i].got = @ + 1]
    /\ returned' = {}
    /\ UNCHANGED <<prog, stdout, notProg>>

\* The function given to runAsync ends: the handler returns (a put without error only after
\* it has read the body to its end; the default branch has no handler and answers with Err),
\* the response is written, and a failed write cancels the lifecycle.
HandFinish(i) ==
    /\ hand[i].st = "running"
    /\ \E e \in BOOLEAN, io \in IOOutcomes :
        /\ hand[i].cmd = "unknown" => e
        /\ (hand[i].cmd = "put" /\ ~e) => hand[i].pipe = "eof"
        /\ hand' = [hand EXCEPT ![i].st = "done", ![i].err = e]
        /\ IF io = "fail"
           THEN /\ prog' = Cancel([prog EXCEPT !.wfail = TRUE], TRUE)
                /\ UNCHANGED stdout
           ELSE /\ stdout' = Respond(stdout, i, e)
                /\ UNCHANGED prog
    /\ returned' = {}
    /\ UNCHANGED notProg

\* Run: `<-cp.lifecycle.Done()`.
ProgRunWake ==
    /\ prog.run = "waiting" /\ prog.cause # "none"
    /\ prog' = [prog EXCEPT !.run = "wgwait"]
    /\ returned' = {}
    /\ UNCHANGED <<hand, stdout, notProg>>

\* Run: the deferred cp.wg.Wait(), then the return.
ProgRunReturn ==
    /\ prog.run = "wgwait"
    /\ WgWait
    /\ prog' = [prog EXCEPT !.run = "returned"]
    /\ returned' = {}
    /\ UNCHANGED <<hand, stdout, notProg>>

\* The inputs: up to MaxRecords records, then end of input.
Inputs ==
    UNION {[1..n -> Records] : n \in 0..MaxRecords}

\* New: nothing read, nothing written.
InitProg ==
    /\ InitCacheIdle /\ InitArIdle /\ InitJobIdle /\ InitLineIdle /\ InitKeyIdle
    /\ \E s \in Inputs :
        /\ \A k \in 1..Len(s) : s[k].cmd = "put" =>
              (s[k].have <= s[k].chunks /\ (s[k].have < s[k].chunks => k = Len(s)))
        /\ prog = [NoProg EXCEPT !.inp = s]
    /\ hand = [i \in RecIds |-> NoHand]
    /\ stdout = NoOut

ReadLoopStep ==
    \/ ProgCheck
    \/ ProgRead
    \/ ProgBodyNext
    \/ ProgBodyWritten

NextProg ==
    \/ ProgRun
    \/ ReadLoopStep
    \/ \E i \in RecIds : HandRead(i) \/ HandFinish(i)
    \/ ProgRunWake
    \/ ProgRunReturn

SpecProg == InitProg /\ [][NextProg]_vars

\* The goroutine of Run is scheduled when it can run.
SpecProgLive ==
    /\ SpecProg
    /\ WF_vars(ProgRunWake) /\ WF_vars(ProgRunReturn)

\* ===================================================== CacheProg over its input lines
\* The read loop on the lines of stdin, read through LineChunkedReader: a line longer than
\* the buffer comes in fragments.  A request line holds one byte here, a body line any
\* number; a non-blank line is named by its tag, its position among the non-blank lines.
LineBufSize == 2
MaxBlank == 10
MaxSegs == 2
LineMaxAttempts == 10

BlankLine == [kind |-> "blank", len |-> 0, tag |-> 0]
NoFrag == [n |-> 0, tag |-> 0, isPrefix |-> FALSE, err |-> "nil", idx |-> 0, off |-> 0]
\* The requests of an input: get, close, put with BodySize = 0, and put followed by a body
\* line of 1 to 2 * LineBufSize + 1 bytes; each after some blank lines.
Segs ==
    [blanks : 0..MaxBlank, kind : {"get", "close", "put0"}, body : {0}]
      \cup [blanks : 0..MaxBlank, kind : {"put"}, body : 1..(2 * LineBufSize + 1)]

Blanks(n) == [i \in 1..n |-> BlankLine]

\* The lines of the k-th request of an input.
SegLines(g, k) ==
    Blanks(g.blanks) \o <<[kind |-> g.kind, len |-> 1, tag |-> 2 * k - 1]>>
      \o (IF g.kind = "put" THEN <<[kind |-> "body", len |-> g.body, tag |-> 2 * k]>>
          ELSE <<>>)

\* The lines of an input: its requests, then trailing blank lines.
InputLines(segs, trail) ==
    (IF Len(segs) >= 1 THEN SegLines(segs[1], 1) ELSE <<>>)
      \o (IF Len(segs) >= 2 THEN SegLines(segs[2], 2) ELSE <<>>)
      \o (IF Len(segs) >= 3 THEN SegLines(segs[3], 3) ELSE <<>>)
      \o Blanks(trail)

\* The input without its blank lines.
Strip(lines) == SelectSeq(lines, LAMBDA l : l.kind # "blank")

\* bufio.Reader.ReadLine: the rest of the current line without its newline, or, when the
\* buffer fills before the newline, the buffer's worth of it with isPrefix set.
ReadLine(lines, idx, off) ==
    IF idx > Len(lines)
    THEN [NoFrag EXCEPT !.err = "EOF", !.idx = idx, !.off = off]
    ELSE IF lines[idx].len - off >= LineBufSize
    THEN [NoFrag EXCEPT !.n = LineBufSize, !.tag = lines[idx].tag, !.isPrefix = TRUE,
                        !.idx = idx, !.off = off + LineBufSize]
    ELSE [NoFrag EXCEPT !.n = lines[idx].len - off, !.tag = lines[idx].tag,
                        !.idx = idx + 1, !.off = 0]

\* LineChunkedReader.NextValidLine: ReadLine until it gives bytes or an error, at most
\* LineMaxAttempts times.
RECURSIVE NextValidLine(_, _, _, _)
NextValidLine(lines, idx, off, attempts) ==
    IF attempts + 1 > LineMaxAttempts
    THEN [NoFrag EXCEPT !.err = "ErrNoProgress", !.idx = idx, !.off = off]
    ELSE LET r == ReadLine(lines, idx, off)
         IN IF r.n = 0 /\ r.err = "nil"
            THEN NextValidLine(lines, r.idx, r.off, attempts + 1)
            ELSE r

\* json.Unmarshal of a line and the switch on req.Command: a whole request line decodes to
\* its command; a body line, or a part of any line, is no request.
Decode(lines, r) ==
    IF \E i \in 1..Len(lines) :
          lines[i].tag = r.tag /\ lines[i].len = r.n /\ lines[i].kind # "body"
    THEN (CHOOSE l \in {lines[i] : i \in 1..Len(lines)} : l.tag = r.tag).kind
    ELSE "garbage"

\* One turn of readLoop: the next line as a request, or as a chunk of the body of the put
\* read last.
LrStep(s) ==
    LET r == NextValidLine(s.lines, s.idx, s.off, 0)
        t == [s EXCEPT !.idx = r.idx, !.off = r.off]
        k == Len(s.disp)
    IN IF s.mode = "body"
       THEN IF r.err # "nil"
            THEN [t EXCEPT !.mode = "ended", !.ended = "error",
                           !.disp[k].eos = "ErrClosedPipe"]
            ELSE [t EXCEPT !.disp[k].body = Append(@, [tag |-> r.tag, n |-> r.n]),
                           !.disp[k].eos = IF r.isPrefix THEN @ ELSE "EOF",
                           !.mode = IF r.isPrefix THEN "body" ELSE "record"]
       ELSE IF r.err = "EOF" THEN [t EXCEPT !.mode = "ended", !.ended = "eof"]
       ELSE IF r.err # "nil" \/ r.isPrefix THEN [t EXCEPT !.mode = "ended", !.ended = "error"]
       ELSE LET cmd == Decode(s.lines, r)
            IN IF cmd = "garbage" THEN [t EXCEPT !.mode = "ended", !.ended = "error"]
               ELSE IF cmd = "close" THEN [t EXCEPT !.mode = "ended", !.ended = "close"]
               ELSE [t EXCEPT !.disp = Append(@, [cmd |-> cmd, tag |-> r.tag, body |-> <<>>,
                                                  eos |-> IF cmd = "put" THEN "open"
                                                          ELSE "EOF"]),
                              !.mode = IF cmd = "put" THEN "body" ELSE "record"]

\* readLoop run to its return.
RECURSIVE RunLoop(_)
RunLoop(s) == IF s.mode = "ended" THEN s ELSE RunLoop(LrStep(s))

\* Run starts the read loop.
LrStart ==
    /\ lr.mode = "idle"
    /\ lr' = [lr EXCEPT !.mode = "record"]
    /\ returned' = {}
    /\ UNCHANGED notLine

\* readLoop: one turn.
LrNext ==
    /\ lr.mode \in {"record", "body"}
    /\ lr' = LrStep(lr)
    /\ returned' = {}
    /\ UNCHANGED notLine

\* New, on an input of up to MaxSegs requests.
InitLine ==
    /\ InitCacheIdle /\ InitArIdle /\ InitJobIdle /\ InitProgIdle /\ InitKeyIdle
    /\ \E n \in 0..MaxSegs :
        \E segs \in [1..n -> Segs], trail \in 0..MaxBlank :
            lr = [NoLr EXCEPT !.lines = InputLines(segs, trail)]

NextLine == LrStart \/ LrNext

SpecLine == InitLine /\ [][NextLine]_vars

\* ===================================================== the object keys of cache entries
\* Strings are sequences of one-character strings, an ActionID is a sequence of bytes.
MaxKeyLen == 7
MaxIdLen == 2

HexDigits == <<"0", "1", "2", "3", "4", "5", "6", "7", "8", "9", "a", "b", "c", "d", "e", "f">>
UpperHexDigits == <<"A", "B", "C", "D", "E", "F">>

\* fmt's %02x of one byte.
HexOfByte(b) == <<HexDigits[(b \div 16) + 1], HexDigits[(b % 16) + 1]>>

\* fmt's %x of a byte slice.
RECURSIVE HexOf(_)
HexOf(id) == IF id = <<>> THEN <<>> ELSE HexOfByte(id[1]) \o HexOf(Tail(id))

\* encoding/hex: the value of a digit in either case, -1 for any other character.
HexVal(c) ==
    IF \E n \in 1..16 : HexDigits[n] = c
    THEN (CHOOSE n \in 1..16 : HexDigits[n] = c) - 1
    ELSE IF \E n \in 1..6 : UpperHexDigits[n] = c
    THEN (CHOOSE n \in 1..6 : UpperHexDigits[n] = c) + 9
    ELSE -1

\* hex.DecodeString: the bytes, or an error for a character that is no digit or an odd length.
HexDecodes(s) == Len(s) % 2 = 0 /\ \A i \in 1..Len(s) : HexVal(s[i]) >= 0
HexDecode(s) == [i \in 1..(Len(s) \div 2) |-> 16 * HexVal(s[2 * i - 1]) + HexVal(s[2 * i])]

KeyOk(key) == [k |-> "ok", key |-> key]
IdOk(id) == [k |-> "ok", id |-> id]
KeyErr == [k |-> "err"]
KeyPanic == [k |-> "panic"]

\* CacheEntityKey: "b/%02x/%x" of actionID[0] and actionID; indexing an empty ActionID
\* panics.
CacheEntityKey(id) ==
    IF id = <<>> THEN KeyPanic
    ELSE KeyOk(<<"b", "/">> \o HexOfByte(id[1]) \o <<"/">> \o HexOf(id))

\* DecodeCacheEntityKey: the shape b/../, the hex digits after it, and the comparison with
\* the key of the decoded ActionID.
DecodeCacheEntityKey(key) ==
    IF Len(key) < 5 \/ key[1] # "b" \/ key[2] # "/" \/ key[5] # "/"
    THEN KeyErr
    ELSE LET actionIDInHex == SubSeq(key, 6, Len(key))
         IN IF ~HexDecodes(actionIDInHex) THEN KeyErr
            ELSE LET again == CacheEntityKey(HexDecode(actionIDInHex))
                 IN IF again = KeyPanic THEN KeyPanic
                    ELSE IF again.key # key THEN KeyErr
                    ELSE IdOk(HexDecode(actionIDInHex))

\* CacheEntityKeyspace: the first digit of %02x of actionID[0].
CacheEntityKeyspace(id) == <<HexOfByte(id[1])[1]>>

\* ArchiveListPrefixKey: "b/%s".
ArchiveListPrefixKey(keyspace) == <<"b", "/">> \o keyspace

\* The characters of the keys tried, and the bytes of the ActionIDs tried.
KeyChars == {"b", "/", "0", "a", "A"}
IdBytes == {0, 10, 171, 255}

SeqsUpTo(S, n) == UNION {[1..k -> S] : k \in 0..n}

\* CacheEntityKey of an ActionID, and DecodeCacheEntityKey of the key it gave.
KeyRoundTrip ==
    /\ kc.op = "encode" /\ kc.res.k = "none"
    /\ LET key == CacheEntityKey(kc.id)
       IN kc' = [kc EXCEPT !.key = key.key, !.res = DecodeCacheEntityKey(key.key)]
    /\ returned' = {}
    /\ UNCHANGED notKey

\* DecodeCacheEntityKey of the key of a listed object.
KeyDecode ==
    /\ kc.op = "decode" /\ kc.res.k = "none"
    /\ kc' = [kc EXCEPT !.res = DecodeCacheEntityKey(kc.key)]
    /\ returned' = {}
    /\ UNCHANGED notKey

\* A non-empty ActionID to encode, or a key string to decode.
InitKey ==
    /\ InitCacheIdle /\ InitArIdle /\ InitJobIdle /\ InitProgIdle /\ InitLineIdle
    /\ \/ \E id \in SeqsUpTo(IdBytes, MaxIdLen) \ {<<>>} : kc = [NoKc EXCEPT !.op = "encode", !.id = id]
       \/ \E key \in SeqsUpTo(KeyChars, MaxKeyLen) : kc = [NoKc EXCEPT !.op = "decode", !.key = key]

NextKey == KeyRoundTrip \/ KeyDecode

SpecKey == InitKey /\ [][NextKey]_vars

Init == (InitLocal \/ InitBlob) /\ InitArIdle /\ InitJobIdle /\ InitProgIdle /\ InitLineIdle /\ InitKeyIdle

LocalSteps ==
    \E p \in Procs :
        \/ LGetOpen(p)
        \/ LGetStat(p)
        \/ LPutBody(p)
        \/ LPutRenameOut(p)
        \/ LPutRenameAct(p)

LocalCalls ==
    \E p \in Procs :
        \/ \E a \in ActionIDs \cup {EmptyID} : LGetCall(p, a)
        \/ \E a \in ActionIDs \cup {EmptyID}, o \in OutputIDs, n \in BodyLens : LPutCall(p, a, o, n)
        \/ LCloseCall(p)

BlobCalls ==
    \E p \in Procs :
        \/ \E a \in ActionIDs \cup {EmptyID} : BGetCall(p, a)
        \/ \E a \in ActionIDs \cup {EmptyID}, o \in OutputIDs, n \in BodyLens : BPutCall(p, a, o, n)
        \/ BCloseCall(p)
        \/ BCompactCall(p)

BlobSteps ==
    \/ \E p \in Procs :
        \/ LPutFromBlob(p)
        \/ BGetAr(p)
        \/ BGetRemote(p)
        \/ BGetPut(p)
        \/ BPutUp(p)
        \/ BCloseCancel(p)
        \/ BCloseReturn(p)
        \/ CompactSync(p)
        \/ CompactList(p)
    \/ \E a \in ActionIDs :
        \/ UpSubmit(a)
        \/ UpStart(a)
        \/ UpWrite(a)
    \/ PoolStop
    \/ Tick

Next == LocalCalls \/ LocalSteps \/ BlobCalls \/ BlobSteps

Spec == Init /\ [][Next]_vars

\* ===================================================== properties
\* C1 (put-then-get visibility): a Get that arrives on the open backend after a Put for its
\* ActionID was acknowledged, with no Put for it since, and whose execution meets no failure,
\* returns a hit with the OutputID and Size of that Put.
C1_PutThenGetVisible ==
    \A r \in returned :
        (r.call.op = "get" /\ ~r.call.late /\ r.call.exp # NoEntry /\ ~r.failed)
            => /\ r.res.k = "hit"
               /\ r.res.oid = r.call.exp.oid
               /\ r.res.size = r.call.exp.size

\* C2 (backend-as-miss): a Get that arrives on the open blob backend returns a hit or a miss.
C2_BlobGetHitOrMiss ==
    \A r \in returned :
        (backend = "blob" /\ r.call.op = "get" /\ ~r.call.late)
            => r.res.k \in {"hit", "miss"}

\* The executions of get and put in progress for ActionID a.
LGetRunning(a) == {p \in Procs : pc[p] \in {"lget_open", "lget_stat"} /\ fr[p].aid = a}

LPutRunning(a) ==
    {p \in Procs : pc[p] \in {"lput_body", "lput_rename_out", "lput_rename_act"} /\ fr[p].aid = a}

BGetRunning(a) ==
    {p \in Procs : /\ backend = "blob" /\ call[p].op = "get" /\ call[p].aid = a
                   /\ pc[p] \notin {"idle", "bget_wait"}}

\* C3 (single-flight): for every ActionID at most one execution of the local get, of the
\* local put and of the blob get is in progress, and the callers of one flight are handed
\* the same outcome.
C3_SingleFlight ==
    /\ \A a \in ActionIDs :
        /\ Cardinality(LGetRunning(a)) <= 1
        /\ Cardinality(LPutRunning(a)) <= 1
        /\ Cardinality(BGetRunning(a)) <= 1
    /\ \A r1, r2 \in returned :
        (r1.call.op = r2.call.op /\ r1.call.lead # 0 /\ r1.call.lead = r2.call.lead)
            => r1.res = r2.res

\* Two callers of one flight have been handed its outcome.
C3_Witness ==
    \E r1, r2 \in returned :
        /\ r1.p # r2.p
        /\ r1.call.op = r2.call.op
        /\ r1.call.lead # 0 /\ r1.call.lead = r2.call.lead
        /\ r1.res.k \in {"hit", "ok"}

C5_SizeMismatchRejected ==
    \A r \in returned :
        (/\ backend = "local" /\ r.call.op = "put" /\ r.call.lead = r.call.id
         /\ r.call.size > 0 /\ r.call.n # r.call.size)
            => r.res.k = "err" /\ ~r.fr.touched

\* C5 as the claim has it, for every BodySize >= 0.
C5_SizeMismatchRejectedAnySize ==
    \A r \in returned :
        (/\ backend = "local" /\ r.call.op = "put" /\ r.call.lead = r.call.id
         /\ r.call.n # r.call.size)
            => r.res.k = "err" /\ ~r.fr.touched

\* A put with BodySize > 0 and a body of another length has been rejected over an entry.
C5_Witness ==
    \E r \in returned :
        /\ backend = "local" /\ r.call.op = "put" /\ r.call.lead = r.call.id
        /\ r.call.size > 0 /\ r.call.n # r.call.size
        /\ r.res = RErr("size-mismatch")
        /\ actionFile[r.call.aid] # NoEntry

\* The responses of the blob Gets that ran get themselves.
BlobGetsLed ==
    {r \in returned : /\ backend = "blob" /\ r.call.op = "get" /\ ~r.call.late
                      /\ r.call.aid # EmptyID /\ r.call.lead = r.call.id}

\* The hit a source entry (a bundle entry, a downloaded object) gives.
AnswersFrom(r, e, tier) ==
    /\ r.res.k = "hit" /\ r.res.oid = e.oid /\ r.res.size = e.size /\ r.res.time = e.time
    /\ r.bl.tier = tier

\* C6 (get resolution order): a Get is answered by the first of (1) the bundle entry of its
\* ActionID with Size 0, (2) the local disk hit, (3) the bundle entry with Size > 0, (4) the
\* standalone object, with the OutputID and Size of that tier; it answers Miss only when no
\* tier holds the ActionID or a tier failed.
C6_ResolutionOrder ==
    \A r \in BlobGetsLed :
        LET ar == r.bl.ar
            disk == r.bl.disk
            obj == r.bl.robj
            fast == ar.k = "ar" /\ ar.size = 0
        IN /\ fast => AnswersFrom(r, ar, "archive-fast")
           /\ (~fast /\ disk.k = "hit") => (r.res = disk /\ r.bl.tier = "local")
           /\ (~fast /\ disk.k = "miss" /\ ar.k = "ar")
                 => (AnswersFrom(r, ar, "archive") \/ (r.failed /\ r.res = RMiss))
           /\ (~fast /\ disk.k = "miss" /\ ar.k = "none" /\ obj.k = "obj"
                 /\ obj.aid = r.call.aid)
                 => (AnswersFrom(r, obj, "download") \/ (r.failed /\ r.res = RMiss))
           /\ r.res.k \in {"hit", "miss"}
           /\ r.res = RMiss
                 => (r.failed \/ (ar.k = "none" /\ disk.k = "miss" /\ obj.k = "none"))

\* A Get found nothing in the bundle and on the local disk, and was answered by the bucket.
C6_Witness ==
    \E r \in BlobGetsLed :
        /\ r.bl.ar = NoEntry /\ r.bl.disk = RMiss
        /\ AnswersFrom(r, r.bl.robj, "download")

\* C7 (local materialization): when a Get returns a hit served by the bundle slow path or
\* by a download, it has put the source entry on the local disk itself, and the local disk
\* holds that entry (OutputID, Size, Time of the source meta) unless a Put of the ActionID
\* was in progress during the Get.
C7_MaterializedLocally ==
    \A r \in BlobGetsLed :
        (r.res.k = "hit" /\ r.bl.tier \in {"archive", "download"})
            => /\ r.bl.own
               /\ r.call.solo
                    => actionFile[r.call.aid]
                         = Meta(r.call.aid, r.res.oid, r.res.size, r.bl.src.time)

\* C8 (write-through put never waits): a Put whose local disk write has returned can return
\* at once, whatever the upload pool is doing.
C8_PutNeverWaits ==
    \A p \in Procs : pc[p] = "bput_up" => ENABLED BPutUp(p)

\* A Put has returned its DiskPath and started its upload flight while every upload worker
\* is busy.
C8_Witness ==
    \E r \in returned :
        /\ backend = "blob" /\ r.call.op = "put" /\ r.res.k = "ok"
        /\ upl[r.call.aid].st = "new"
        /\ RunningWorkers >= UploadConcurrency

\* C9 (remote object invariant): an object a background upload wrote under the key of
\* ActionID a holds an EntryMeta with ActionID a and a body of exactly the meta's Size bytes.
C9_RemoteObjectInvariant ==
    \A a \in ActionIDs :
        (remote[a].k = "obj" /\ remote[a].by = "upload")
            => remote[a].aid = a /\ remote[a].size = remote[a].blen

\* C10 (backend-closed): a Get, Put or Compact that arrives after the closed flag is set
\* returns an error in that step, which changes no file, no object, no bundle and no upload
\* flight; no such call is ever in progress.
C10_ClosedRejects ==
    [][/\ \A r \in returned' :
            r.call.late => /\ r.res.k = "err"
                           /\ UNCHANGED <<diskVars, remote, remoteAr, arCur, upl>>
       /\ \A p \in Procs : pc'[p] # "idle" => ~call'[p].late]_vars

\* A Put that arrived on the closed blob backend has been turned away.
C10_Witness ==
    \E r \in returned :
        /\ backend = "blob" /\ closedB
        /\ r.call.late /\ r.call.op = "put" /\ r.res = RErr("closed")

\* C11 (Close drain protocol): Close returns only when the upload tasks have drained or the
\* lifecycle has been cancelled; the lifecycle is cancelled only once the close timeout has
\* expired; the local cache and the bucket are closed only when Close has returned.
C11_CloseDrainProtocol ==
    /\ closeSt = "returned" => (FullyStopped \/ lifecycle = "cancelled")
    /\ lifecycle = "cancelled" => elapsed >= 1
    /\ (backend = "blob" /\ (closedL \/ bucketClosed)) => closeSt = "returned"

\* C12 (lifecycle cancelled at Close): whenever Close has returned the lifecycle is
\* cancelled, and no step after that changes a bucket object, the remote bundle or the
\* current bundle.
C12_LifecycleCancelledAtClose ==
    /\ [](closeSt = "returned" => lifecycle = "cancelled")
    /\ [][closeSt = "returned" => UNCHANGED <<remote, remoteAr, arCur>>]_vars

BadStream(s) == s.fails \/ ~Parses(s.bytes)

\* The installed reader and the final file hold a complete, validated bundle.
C14_InstalledComplete ==
    /\ arInstalled # 0 =>
        /\ arReaders[arInstalled] # NoReader
        /\ ~arReaders[arInstalled].closed
        /\ arFs.files[arReaders[arInstalled].ino].k = "bundle"
        /\ arReaders[arInstalled].files = arFs.files[arReaders[arInstalled].ino]
    /\ arFs.final # 0 => arFs.files[arFs.final].k = "bundle"

\* A step of a Put of a rejected stream changes neither the installed reader nor the final
\* file, and its return is an error with the temp file removed.
C14_BadPutLeavesNoTrace ==
    /\ \A p \in ArProcs :
        (arProc[p].op = "put" /\ BadStream(arProc[p].stream) /\ arProc'[p] # arProc[p]) =>
            /\ arInstalled' = arInstalled
            /\ arFs'.final = arFs.final
            /\ arFs.final # 0 => arFs'.files[arFs.final] = arFs.files[arFs.final]
    /\ \A r \in returned' :
        (r.op = "put" /\ BadStream(r.stream)) =>
            /\ r.err
            /\ r.ino # 0 => (r.ino \notin arFs'.temps /\ arFs'.files[r.ino] = FAbsent)

\* C14 (partially-written bundles are never observable): in every state the installed reader
\* is open on a complete bundle that passed validation and holds that bundle's entries, and
\* the file k.zip names is a complete bundle; and the steps of a Put whose stream fails to
\* copy or is no parsable bundle leave the installed reader and the final file as they were,
\* and the Put returns an error with its temp file removed.
C14_NoPartialBundle ==
    /\ []C14_InstalledComplete
    /\ [][C14_BadPutLeavesNoTrace]_vars

\* A Put of bytes that are no bundle has been copied in full, failed validation and returned,
\* while a reader is installed, k.zip exists and another Put's temp file is half written.
C14_Witness ==
    /\ \E r \in returned : r.op = "put" /\ r.stream.bytes = FGarbage /\ r.err /\ r.ino # 0
    /\ arInstalled # 0 /\ arFs.final # 0
    /\ \E i \in arFs.temps : arFs.files[i] = FPartial

\* addedCount, counted from the listing: the listed small objects with no entry in the bundle
\* current at the listing, all of them when there is no bundle.
C15_AddedCount == Cardinality(job.planned \ ArNames(job.arAtList))

\* C15 (compaction threshold): a run that ends without an error has built, installed and
\* uploaded a new bundle exactly when addedCount >= 10, and is marked skipped otherwise; a
\* skipped run has installed and uploaded nothing and leaves the local and the remote bundle
\* as they were at its listing; and no run writes, installs or uploads a bundle while
\* addedCount < 10.
C15_CompactionThreshold ==
    /\ (job.pc = "done" /\ job.err = "none") =>
        /\ ~job.isSkipped <=> C15_AddedCount >= CompactionAtLeastAddFiles
        /\ ~job.isSkipped =>
            /\ job.installed /\ job.uploaded
            /\ jobEnv.localAr.k = "ar" /\ jobEnv.remoteAr = jobEnv.localAr
        /\ job.isSkipped =>
            /\ ~job.installed /\ ~job.uploaded
            /\ jobEnv.localAr = job.arAtList
            /\ jobEnv.remoteAr = job.remoteAtStart
    /\ (job.newArFile # NoAr \/ job.installed \/ job.uploaded) =>
        C15_AddedCount >= CompactionAtLeastAddFiles

\* A first run ingested a bundle of 10 or more objects; the rerun, after one more object
\* appeared, counted 1 new object beside that bundle and was skipped.
C15_Witness ==
    /\ job.pc = "done" /\ job.run = 2 /\ job.err = "none"
    /\ job.isSkipped /\ C15_AddedCount = 1 /\ job.arAtList.k = "ar"
    /\ job.prev.ran /\ job.prev.full
    /\ Cardinality(ArNames(job.prev.remoteAr)) >= CompactionAtLeastAddFiles

\* The bundles the run in progress has produced: the file it filled, and that file once it is
\* installed or uploaded.
C16_Produced ==
    (IF job.newArFile # NoAr THEN {job.newArFile} ELSE {})
      \cup (IF job.installed THEN {jobEnv.localAr} ELSE {})
      \cup (IF job.uploaded THEN {jobEnv.remoteAr} ELSE {})

\* C16 (compaction shrinks to the listing): every bundle a run produces holds at most one
\* entry per name, only under names of the small objects the run listed, so no entry of the
\* previous bundle whose object is not listed any more; and when no listed object failed to
\* be fetched or to validate, it holds an entry for every listed object.
C16_ShrinksToListing ==
    \A ar \in C16_Produced :
        /\ ar.k = "ar"
        /\ \A n \in Names : ar.cnt[n] <= 1
        /\ ArNames(ar) \subseteq job.planned
        /\ (ArNames(job.arAtList) \ job.planned) \cap ArNames(ar) = {}
        /\ job.failed = {} => ArNames(ar) = job.planned

\* A run has uploaded a bundle holding every listed object, and the bundle it replaced had an
\* entry for an object that was not listed.
C16_Witness ==
    /\ job.pc = "done" /\ job.uploaded /\ job.failed = {}
    /\ ArNames(job.arAtList) \ job.planned # {}
    /\ ArNames(jobEnv.remoteAr) = job.planned
    /\ jobEnv.large # {}

\* C17 (compaction is idempotent on an unchanged remote): when a run has ingested a bundle
\* holding every object it listed and the objects have not changed since that listing, the
\* rerun installs and uploads nothing and leaves the local and the remote bundle as the first
\* run left them; and when it ends, it has counted no new object and is skipped (or its
\* listing failed).
C17_IdempotentRerun ==
    (job.run = 2 /\ job.prev.ran /\ job.prev.full
     /\ jobEnv.changes = job.prev.changesAtList) =>
        /\ ~job.installed /\ ~job.uploaded /\ job.newArFile = NoAr
        /\ jobEnv.localAr = job.prev.localAr
        /\ jobEnv.remoteAr = job.prev.remoteAr
        /\ job.pc = "done" =>
            /\ job.err \in {"none", "list"}
            /\ job.err = "none" =>
                (job.isSkipped /\ job.added = 0 /\ C15_AddedCount = 0)

\* The rerun synced the bundle the first run uploaded, listed the same 10 or more objects and
\* ended skipped.
C17_Witness ==
    /\ job.run = 2 /\ job.pc = "done" /\ job.err = "none" /\ job.isSkipped
    /\ job.prev.ran /\ job.prev.full /\ jobEnv.changes = job.prev.changesAtList
    /\ job.sync = "ok"
    /\ Cardinality(job.planned) >= CompactionAtLeastAddFiles
    /\ ArNames(jobEnv.localAr) = job.planned

\* The read loop has read record i (for a put: its header line).
WasRead(i) ==
    i <= Len(prog.inp)
    /\ (i < prog.pos \/ (i = prog.pos /\ prog.rl \in {"body", "write"}))

\* C18 (exactly one response per request): at most one capability record with ID 0 is
\* written; for every ID at most one response is written, and only if a get, put or
\* unknown-command record with that ID has been read; and, no write to stdout having failed,
\* every such record that has been read and whose goroutine is not running any more has its
\* response written.
C18_OneResponsePerRequest ==
    /\ stdout.cnt[0] <= 1
    /\ \A i \in RecIds :
        /\ stdout.cnt[i] <= 1
        /\ stdout.cnt[i] = 1 =>
            (WasRead(i) /\ prog.inp[i].cmd \in {"get", "put", "unknown"})
        /\ (WasRead(i) /\ prog.inp[i].cmd \in {"get", "put", "unknown"}
            /\ hand[i].st # "running" /\ ~prog.wfail) => stdout.cnt[i] = 1

\* Run has returned at the end of an input of MaxRecords records, among them a put with a
\* body and an unknown command, and each has its one response.
C18_Witness ==
    /\ prog.run = "returned" /\ prog.ended = "eof" /\ ~prog.wfail
    /\ Len(prog.inp) = MaxRecords
    /\ \A i \in RecIds : stdout.cnt[i] = 1
    /\ \E i \in RecIds : prog.inp[i].cmd = "put" /\ prog.inp[i].chunks > 0
    /\ \E i \in RecIds : prog.inp[i].cmd = "unknown"
    /\ stdout.cnt[0] = 1

\* When Run has returned after close or end of input, no handler is running and every
\* finished handler's response is written.
C19_NoneOutstanding ==
    (prog.run = "returned" /\ prog.ended \in {"close", "eof"}) =>
        \A i \in RecIds :
            /\ hand[i].st # "running"
            /\ (hand[i].st = "done" /\ ~prog.wfail) => stdout.cnt[i] = 1

\* Once the read loop has returned, no record is read and no handler is started.
C19_ReadsStop ==
    prog.rl = "returned" =>
        /\ prog'.rl = "returned" /\ prog'.pos = prog.pos
        /\ \A i \in RecIds : hand[i].st = "none" => hand'[i].st = "none"

\* C19 (close awaits outstanding handlers): after close or end of input has been read the
\* read loop reads no further record and starts no handler; when Run has returned, every
\* handler started before that has finished and its response is written; and once close or
\* end of input has been read and no handler is running, Run returns.
C19_CloseAwaitsHandlers ==
    /\ []C19_NoneOutstanding
    /\ [][C19_ReadsStop]_vars
    /\ ((prog.ended \in {"close", "eof"} /\ \A i \in RecIds : hand[i].st # "running")
          ~> prog.run = "returned")

\* Run has returned after a close record that followed two dispatched records, one of them a
\* put with a body, with a record left unread behind the close.
C19_Witness ==
    /\ prog.run = "returned" /\ prog.ended = "close"
    /\ \E i \in RecIds : hand[i].st = "done" /\ hand[i].cmd = "put" /\ hand[i].got > 0
    /\ \E i \in RecIds : hand[i].st = "done" /\ hand[i].cmd = "get"
    /\ \A i \in RecIds : hand[i].st = "done" => stdout.cnt[i] = 1

\* C20 (handler errors do not stop the engine): once a get or put handler has returned an
\* error (no write to stdout having failed) the response with its ID is written and carries
\* Err; and the read loop, while it has not returned and no handler is running, can take its
\* next step.
C20_HandlerErrorsDoNotStop ==
    \A i \in RecIds :
        (hand[i].st = "done" /\ hand[i].cmd \in {"get", "put"} /\ hand[i].err
         /\ ~prog.wfail) =>
            /\ stdout.cnt[i] = 1 /\ stdout.err[i]
            /\ (prog.rl # "returned" /\ \A j \in RecIds : hand[j].st # "running") =>
                ENABLED ReadLoopStep

\* C21 (write failures are reported): when a write of a response record to stdout has failed
\* and Run has returned, Run's result is an error: the cause of the lifecycle's cancellation
\* is not the plain cancellation a close record or the end of input leaves.
C21_WriteFailureReported ==
    (prog.wfail /\ prog.run = "returned") => prog.cause # "canceled"

\* The number of bytes in a sequence of chunks.
RECURSIVE ChunkBytes(_)
ChunkBytes(body) == IF body = <<>> THEN 0 ELSE body[1].n + ChunkBytes(Tail(body))

\* The input's line of a tag, when it has one.
HasTag(tag) == \E i \in 1..Len(lr.lines) : lr.lines[i].tag = tag
LineOf(tag) == CHOOSE l \in {lr.lines[i] : i \in 1..Len(lr.lines)} : l.tag = tag

\* C22 (put body framing): once the handler of a put with BodySize > 0 has seen the end of its
\* body stream, the chunks it received are exactly the bytes of the one line that follows
\* the put's header, whatever that line's length is against the line buffer, and when the
\* read loop has returned without an error the line after the body was taken as a request.
C22_PutBodyFraming ==
    \A k \in 1..Len(lr.disp) :
        LET d == lr.disp[k]
        IN (d.cmd = "put" /\ d.eos = "EOF") =>
            /\ \A j \in 1..Len(d.body) : d.body[j].tag = d.tag + 1
            /\ ChunkBytes(d.body) = LineOf(d.tag + 1).len
            /\ (lr.mode = "ended" /\ lr.ended # "error" /\ HasTag(d.tag + 2)) =>
                \/ LineOf(d.tag + 2).kind = "close" /\ lr.ended = "close"
                \/ \E m \in 1..Len(lr.disp) : lr.disp[m].tag = d.tag + 2

\* C23 (capability first): the record with ID 0 is written at most once; no response to a
\* request is written, and the read loop is not started, before it has been written; and
\* when its write failed, Run has returned with the error, no record has been read, no
\* handler started and nothing written.
C23_CapabilityFirst ==
    /\ stdout.cnt[0] <= 1
    /\ (prog.rl # "none" \/ prog.pos > 1
        \/ (\E i \in RecIds : stdout.cnt[i] > 0 \/ hand[i].st # "none")) => stdout.cnt[0] = 1
    /\ (prog.run # "init" /\ stdout.cnt[0] = 0) =>
        /\ prog.run = "returned" /\ prog.wfail
        /\ prog.rl = "none" /\ prog.pos = 1
        /\ \A i \in RecIds : hand[i].st = "none" /\ stdout.cnt[i] = 0

\* The capability record is on stdout, and a request read after it has been answered.
C23_Witness ==
    /\ stdout.cnt[0] = 1
    /\ prog.pos > 1
    /\ \E i \in RecIds : hand[i].st = "done" /\ stdout.cnt[i] = 1

\* C24 (empty lines between records are ignored): when the read loop has returned, it has
\* dispatched the requests, with the bodies, and ended the way it does on the same input
\* without its empty lines.
C24_EmptyLinesIgnored ==
    lr.mode = "ended" =>
        LET t == RunLoop([NoLr EXCEPT !.lines = Strip(lr.lines), !.mode = "record"])
        IN lr.disp = t.disp /\ lr.ended = t.ended

\* C25 (empty body): on the local backend a put with BodySize = 0 whose execution meets no
\* failure succeeds with the shared empty-output path and never comes to rename a body, and a
\* Get that arrives after such a Put was acknowledged, with no Put for the ActionID since, and
\* runs its own execution without a failure returns a hit with Size = 0, the OutputID of the
\* Put and the shared empty-output path, whatever other action files name that path.
C25_EmptyBody ==
    /\ \A p \in Procs : pc[p] = "lput_rename_out" => fr[p].size > 0
    /\ \A r \in returned :
        /\ (/\ backend = "local" /\ r.call.op = "put" /\ r.call.lead = r.call.id
            /\ r.call.size = 0 /\ ~r.failed)
               => r.res = RPutOk(EmptyPath)
        /\ (/\ backend = "local" /\ r.call.op = "get" /\ r.call.lead = r.call.id
            /\ r.call.exp # NoEntry /\ r.call.exp.size = 0 /\ ~r.failed)
               => /\ r.res.k = "hit"
                  /\ r.res.oid = r.call.exp.oid
                  /\ r.res.size = 0
                  /\ r.res.path = EmptyPath

\* A Get is answered from an entry with an empty body while another ActionID has an entry
\* with an empty body too.
C25_Witness ==
    \E r \in returned :
        /\ backend = "local" /\ r.call.op = "get" /\ r.call.lead = r.call.id
        /\ r.call.exp # NoEntry /\ r.call.exp.size = 0
        /\ r.res.k = "hit" /\ r.res.path = EmptyPath
        /\ \E a \in ActionIDs \ {r.call.aid} :
              actionFile[a].k = "meta" /\ actionFile[a].size = 0

\* ===================================================== LocalBackend on a drifted directory
\* The cache directory when the backend is opened after something else changed it: the
\* entry of ActionID 1 (OutputID 1, Size 1) with its body missing, replaced by a directory,
\* truncated or grown, or with an action file that holds the EntryMeta of ActionID 2.
DriftSamples ==
    {<<Meta(1, 1, 1, "t0"), len>> : len \in {-1, OutputIsDir, 0, 2}}
      \cup {<<Meta(2, 1, 1, "t0"), 1>>}

InitDrift ==
    /\ backend = "local"
    /\ InitProcs /\ InitBlobIdle
    /\ InitArIdle /\ InitJobIdle /\ InitProgIdle /\ InitLineIdle /\ InitKeyIdle
    /\ \E d \in DriftSamples :
        /\ actionFile = [a \in ActionIDs |-> IF a = 1 THEN d[1] ELSE NoEntry]
        /\ outputFile = [o \in OutputIDs |-> IF o = 1 THEN d[2] ELSE -1]
    /\ tmpLeft = 0
    /\ sfGetL = [a \in ActionIDs |-> 0]
    /\ sfPutL = [a \in ActionIDs |-> 0]
    /\ closedL = FALSE
    /\ arCur = NoBundle
    /\ remoteAr = NoEntry
    /\ remote = [a \in ActionIDs |-> NoEntry]

NextDrift == LocalCalls \/ LocalSteps

SpecDrift == InitDrift /\ [][NextDrift]_vars

\* The body file of EntryMeta m is not a file of m.Size bytes.
Drifted(m) == m.k = "meta" /\ m.size > 0 /\ outputFile[m.oid] # m.size

\* The Get of goroutine p is handed a miss by this step.
HandedMiss(p) == \E r \in returned' : r.p = p /\ r.call.op = "get" /\ r.res = RMiss

\* C26 (pruning of drifted entries): when the get of a Get stats the body of an entry with
\* Size > 0 and finds it missing, a directory or of another size, the caller is handed a miss,
\* the action file is gone and so is the body when it was a file; and a get that finds no
\* action file hands its caller a miss.
C26_DriftPruned ==
    [][\A p \in Procs :
        /\ (pc[p] = "lget_stat" /\ pc'[p] # "lget_stat" /\ Drifted(fr[p].meta)) =>
            /\ HandedMiss(p)
            /\ actionFile'[fr[p].aid] = NoEntry
            /\ outputFile'[fr[p].meta.oid] \in {-1, OutputIsDir}
            /\ outputFile[fr[p].meta.oid] >= 0 => outputFile'[fr[p].meta.oid] = -1
        /\ (pc[p] = "lget_open" /\ pc'[p] # "lget_open" /\ actionFile[fr[p].aid] = NoEntry) =>
            HandedMiss(p)]_vars

\* A Get has pruned a drifted entry and a later Get for the ActionID ran get and missed.
C26_Witness ==
    \E r \in returned :
        /\ r.call.op = "get" /\ r.call.lead = r.call.id /\ r.call.id > 1
        /\ r.res = RMiss /\ ~r.failed
        /\ actionFile[r.call.aid] = NoEntry
        /\ r.call.aid = 1
        /\ ncalls = r.call.id

\* C27 (meta-mismatch at the local layer): when the get of a Get opens an action file that
\* holds the EntryMeta of another ActionID, the caller is handed a miss and the action file
\* and the body file that EntryMeta names are gone.
C27_MetaMismatchDeleted ==
    [][\A p \in Procs :
        LET m == actionFile[fr[p].aid]
        IN (pc[p] = "lget_open" /\ pc'[p] # "lget_open" /\ m.k = "meta" /\ m.aid # fr[p].aid) =>
            /\ HandedMiss(p)
            /\ actionFile'[fr[p].aid] = NoEntry
            /\ outputFile'[m.oid] = -1]_vars

\* The executions of put in progress.
LPutsRunning == {p \in Procs : pc[p] \in {"lput_body", "lput_rename_out", "lput_rename_act"}}

\* C28 (failed puts leave no temp files): a put that failed has discarded its temp files by
\* the time it returns, so with no put in progress no temp file is on disk.
C28_FailedPutLeavesNoTemp ==
    (backend = "local" /\ LPutsRunning = {}) => tmpLeft = 0

\* s begins with prefix.
HasPrefix(s, prefix) == Len(s) >= Len(prefix) /\ SubSeq(s, 1, Len(prefix)) = prefix

\* C29 (key codec round-trip): decoding the key of a non-empty ActionID gives that ActionID,
\* and the key begins with the list prefix of the ActionID's keyspace; decoding any key
\* string gives an ActionID whose key is that string, or an error, and never panics.
C29_KeyCodecRoundTrip ==
    /\ (kc.op = "encode" /\ kc.res.k # "none") =>
        /\ kc.res = IdOk(kc.id)
        /\ HasPrefix(kc.key, ArchiveListPrefixKey(CacheEntityKeyspace(kc.id)))
    /\ (kc.op = "decode" /\ kc.res.k # "none") =>
        \/ kc.res = KeyErr
        \/ kc.res.k = "ok" /\ CacheEntityKey(kc.res.id) = KeyOk(kc.key)

\* C30 (failures are not cached by single-flight): a flight is registered in sfGet / sfPut
\* only while its execution is in progress and a call waits only on a registered flight, so
\* a call that starts after a flight of its ActionID completed runs a fresh execution; and a
\* Get that runs its own execution after a Put was acknowledged, with no Put since and no
\* failure, returns the entry of that Put whatever earlier flights returned.
C30_FlightsNotCached ==
    /\ \A a \in ActionIDs :
        /\ sfGetL[a] # 0 => sfGetL[a] \in LGetRunning(a)
        /\ sfPutL[a] # 0 => sfPutL[a] \in LPutRunning(a)
    /\ \A p \in Procs :
        /\ pc[p] = "lget_wait" => sfGetL[fr[p].aid] # 0
        /\ pc[p] = "lput_wait" => sfPutL[fr[p].aid] # 0
    /\ \A r \in returned :
        (/\ backend = "local" /\ r.call.op = "get" /\ r.call.lead = r.call.id
         /\ r.call.exp # NoEntry /\ ~r.failed)
            => /\ r.res.k = "hit"
               /\ r.res.oid = r.call.exp.oid
               /\ r.res.size = r.call.exp.size

\* The get flight of an ActionID has just completed with a failure, and a Get for that
\* ActionID that starts now runs get itself.
C30_Witness ==
    \E r \in returned :
        /\ backend = "local" /\ r.call.op = "get" /\ r.call.aid \in ActionIDs
        /\ r.call.lead = r.call.id /\ r.failed /\ r.res = RMiss
        /\ ENABLED (\E p \in Procs : LGetCall(p, r.call.aid) /\ pc'[p] = "lget_open")

\* The standalone object of ActionID a is there and is not an entry of a: its head is no
\* EntryMeta, or the EntryMeta of another ActionID.
ForeignObject(a) == remote[a].k # "none" /\ (remote[a].k # "obj" \/ remote[a].aid # a)

\* C31 (remote download verifies the ActionID): when the get of a blob Get goes to the
\* bucket and the object under the key of its ActionID carries another ActionID or no
\* EntryMeta, the caller is handed a miss and the step leaves the local disk as it was: no
\* action file, output file or temp file is created.
C31_DownloadVerifiesActionID ==
    [][\A p \in Procs :
        (pc[p] = "bget_remote" /\ pc'[p] # "bget_remote" /\ ForeignObject(call[p].aid)) =>
            /\ \E r \in returned' : r.p = p /\ r.call.op = "get" /\ r.res = RMiss
            /\ pc'[p] = "idle"
            /\ actionFile' = actionFile /\ outputFile' = outputFile /\ tmpLeft' = tmpLeft]_vars

\* A Get downloaded an object whose EntryMeta names another ActionID and missed, with
\* nothing on the local disk.
C31_Witness ==
    \E r \in BlobGetsLed :
        /\ r.bl.robj.k = "obj" /\ r.bl.robj.aid # r.call.aid
        /\ r.res = RMiss
        /\ actionFile[r.call.aid] = NoEntry
        /\ \A o \in OutputIDs : outputFile[o] = -1

\* The lifecycle context the job was given is cancelled.
LifecycleCancelled == jobEnv.life = "cancelled"

\* C32 (compaction honors lifecycle cancellation): once the lifecycle context of the job is
\* cancelled, no step of the job downloads the bundle, installs a new bundle as the local
\* bundle or uploads one.
C32_HonorsCancellation ==
    [][LifecycleCancelled =>
        /\ ~(job'.pc = "list" /\ job.pc # "list" /\ job'.sync = "ok"
               /\ jobEnv.remoteAr.k # "none")
        /\ job'.installed => job.installed
        /\ job'.uploaded => job.uploaded
        /\ jobEnv'.remoteAr = jobEnv.remoteAr]_vars
\* C33 (compaction cleanup on every exit path): when work has returned, whether skipped,
\* failed at the listing, at the temp file, at the ingest or the upload, emptied by a
\* cancellation or successful, the temp bundle file is removed and its writer and file handle
\* are closed; and a temp file exists only between step2 and the return.
C33_CleanupOnEveryExit ==
    /\ job.pc = "done" => (job.temp = "none" /\ job.newArFile = NoAr)
    /\ job.temp # "none" => job.pc \in {"ingest", "upload"}

\* A run whose lifecycle was cancelled before step2 filled an empty temp file, installed it,
\* failed to upload it and returned.
C33_Witness ==
    /\ job.pc = "done" /\ job.err = "upload" /\ job.installed
    /\ job.bad = "closed" /\ job.failed = job.planned
    /\ jobEnv.life = "cancelled"
\* The item step2 saw under name n in the run in progress.
C34_Item(n) == IF n \in job.odd THEN ItemOf(job.bad) ELSE OkItem

\* C34 (compaction validates before adding): every entry of the bundle step2 filled was added
\* for an item whose body is as long as the Size of its get response and whose serialized
\* meta size plus body length is the listed object size; no item failing either check has an
\* entry, and the run counted exactly those items as corrupted.
C34_ValidatesBeforeAdding ==
    job.pc \in {"ingest", "upload"} =>
        /\ \A n \in ArNames(job.newArFile) :
              /\ C34_Item(n).body = C34_Item(n).size
              /\ C34_Item(n).meta + C34_Item(n).body = C34_Item(n).object
        /\ \A n \in job.planned :
              ( C34_Item(n).get = "hit" /\ C34_Item(n).read = "ok"
                /\ ( C34_Item(n).body # C34_Item(n).size
                     \/ C34_Item(n).meta + C34_Item(n).body # C34_Item(n).object ) ) =>
                  n \notin ArNames(job.newArFile)
        /\ job.corrupted =
              Cardinality({n \in job.planned :
                              /\ C34_Item(n).get = "hit" /\ C34_Item(n).read = "ok"
                              /\ ( C34_Item(n).body # C34_Item(n).size
                                   \/ C34_Item(n).meta + C34_Item(n).body
                                        # C34_Item(n).object )})

\* step2 filled a bundle from a listing in which one object's listed size differs from the
\* meta and body the Get returned: it was counted as corrupted and the other objects were
\* added.
C34_Witness ==
    /\ job.pc = "ingest" /\ job.bad = "resized" /\ job.corrupted = 1
    /\ Cardinality(job.odd) = 1 /\ job.failed = job.odd
    /\ ArNames(job.newArFile) = job.planned \ job.failed
    /\ ArNames(job.newArFile) # {}
\* C35 (ingest order): a step of the job changes the remote bundle only in the upload that
\* follows the local install, when the bundle installed locally is the file being ingested,
\* and to that file; a run whose local install fails leaves the remote bundle and the sync
\* time as they were and uploads nothing; and a step of the ingest records the sync time only
\* together with a successful upload.
C35_IngestOrder ==
    [][/\ jobEnv'.remoteAr # jobEnv.remoteAr =>
            /\ job.pc = "upload" /\ job.installed
            /\ jobEnv.localAr = job.newArFile
            /\ jobEnv'.remoteAr = job.newArFile
       /\ (job.pc = "ingest" /\ job'.pc = "done") =>
            /\ job'.err = "ingest" /\ ~job'.installed /\ ~job'.uploaded
            /\ jobEnv'.remoteAr = jobEnv.remoteAr
            /\ jobEnv'.synced = jobEnv.synced
       /\ (job.pc \in {"ingest", "upload"} /\ jobEnv'.synced # jobEnv.synced) =>
            (job'.uploaded /\ ~job.uploaded)]_vars

\* A run found a remote bundle, filled a different one and failed to install it: the remote
\* bundle and the sync time are as they were at the start.
C35_Witness ==
    /\ job.pc = "done" /\ job.err = "ingest" /\ job.included > 0
    /\ job.remoteAtStart.k = "ar" /\ ArNames(job.remoteAtStart) # job.planned
    /\ jobEnv.remoteAr = job.remoteAtStart
    /\ ~jobEnv.synced
\* C36 (bundle lookups verify the ActionID): the entry GetBlob handed to a get is absent or is
\* the entry of the current bundle under the name of the requested ActionID with that
\* ActionID embedded; it is absent when the entry under that name embeds another ActionID;
\* and a hit served from the bundle carries the meta of an entry of the requested ActionID.
C36_BundleLookupVerifiesActionID ==
    \A r \in BlobGetsLed :
        /\ r.bl.ar # NoEntry =>
              (r.bl.ar.k = "ar" /\ r.bl.ar.aid = r.call.aid /\ r.bl.ar = arCur[r.call.aid])
        /\ (arCur[r.call.aid].k = "ar" /\ arCur[r.call.aid].aid # r.call.aid) =>
              r.bl.ar = NoEntry
        /\ (r.res.k = "hit" /\ r.bl.tier \in {"archive", "archive-fast"}) =>
              /\ r.bl.src = r.bl.ar /\ r.bl.src.aid = r.call.aid
              /\ r.res.oid = r.bl.src.oid /\ r.res.size = r.bl.src.size

\* The bundle holds under the name of ActionID 1 an entry that embeds ActionID 2; a Get of
\* ActionID 1 found no bundle entry, nothing on disk and nothing in the bucket, and missed.
C36_Witness ==
    \E r \in BlobGetsLed :
        /\ arCur[r.call.aid].k = "ar" /\ arCur[r.call.aid].aid # r.call.aid
        /\ r.bl.ar = NoEntry /\ r.res = RMiss
\* C37 (remote converges to the last put): when the last Put for an ActionID returned success
\* after every other Put for it had returned, no upload flight for the ActionID is left, the
\* last flight that ended uploaded its object and the backend was not closed, the object in
\* the bucket carries the OutputID, Size and body length of that last Put.
C37_RemoteConvergesToLastPut ==
    \A a \in ActionIDs :
        ( /\ backend = "blob" /\ ~closedB
          /\ ack[a] # NoEntry /\ NoPutInProgress(a)
          /\ upl[a].st = "none" /\ upl[a].last = "uploaded" ) =>
            /\ remote[a].k = "obj"
            /\ remote[a].oid = ack[a].oid
            /\ remote[a].size = ack[a].size
            /\ remote[a].blen = ack[a].size
\* The store under Put calls only, with consumers calling Get: no LoadLocal runs after the
\* store is constructed.
NextArPut ==
    \/ \E p \in ArProcs :
        \/ \E s \in ArStreams : ArPutCall(p, s)
        \/ ArPutCopy(p)
        \/ ArPutOpen(p)
        \/ ArPutRename(p)
        \/ ArPutSet(p)
    \/ ArGet

SpecArPut == InitAr /\ [][NextArPut]_vars

\* C38 (installed reader matches the file on disk): when no Put is in progress and a reader is
\* installed, blobar/k.zip exists and the entries of the installed reader are those a
\* LoadLocal of that file would read.
C38_InstalledReaderMatchesFile ==
    ( (\A p \in ArProcs : arProc[p].pc = "idle") /\ arInstalled # 0 ) =>
        /\ arFs.final # 0
        /\ arReaders[arInstalled].files = arFs.files[arFs.final]
\* C39 (Close drains every accepted put): in the step in which Close returns, no upload
\* flight started by a Put that returned success before Close was called is still waiting to
\* be submitted, queued or running, and none of them ended dropped by the stopped pool.
C39_CloseDrainsAcceptedPuts ==
    [][\A p \in Procs :
        (pc[p] = "bclose_select" /\ pc'[p] = "idle") =>
            \A a \in ActionIDs :
                /\ ~(upl[a].st \in {"new", "queued", "running"} /\ upl[a].pre)
                /\ ~(upl[a].st = "none" /\ upl[a].last = "dropped")]_vars
\* C40 (Close during compaction does not degrade the bundle): when no listed object changed
\* since the listing and no Get, read, validation or write of the run failed for a reason
\* other than the backend being closed, the bundle the run installed locally or uploaded has
\* an entry for every listed object.
C40_CloseKeepsBundleWhole ==
    ( (job.installed \/ job.uploaded)
      /\ ~job.fault
      /\ jobEnv.changes = job.changesAtList ) =>
        /\ job.installed => ArNames(jobEnv.localAr) = job.planned
        /\ job.uploaded => ArNames(jobEnv.remoteAr) = job.planned

====
